---- MODULE Spec2Model ----
(***************************************************************************)
(* A model of the entity composition core of booyah (src/src/entity.js):   *)
(* the base Entity lifecycle, the leaf entities, Parallel, EntitySequence  *)
(* and StateMachine.  Every driver call is one action; a call that throws  *)
(* keeps the assignments made before the throw and records the error.      *)
(***************************************************************************)
EXTENDS Integers, Sequences, FiniteSets, TLC

VARIABLES
    ent,          \* the leaf entities: kind, _isSetup, requestedTransition, _entityConfig
    listeners,    \* per leaf entity, its eventListeners list
    emitter,      \* the listeners held by the one event emitter
    logged,       \* the console.error messages written by the last driver call
    hooks,        \* the subclass hooks run by the last driver call, as <<hook, entity>>
    log,          \* the calls the composite made on its children (a sequence: since its
                  \* setup(); a state machine: during the last call)
    last,         \* the last driver call: operation, target, error thrown
    par,          \* the Parallel under test
    seq,          \* the EntitySequence under test
    sm,           \* the StateMachine under test
    alt,          \* the Alternative under test
    sw,           \* the SwitchingEntity under test
    dc,           \* the DeflatingCompositeEntity under test
    hist          \* what the composite under test has done since its setup()

vars == <<ent, listeners, emitter, logged, hooks, log, last, par, seq, sm, alt, sw, dc, hist>>

-----------------------------------------------------------------------------
(* Bounds *)

NumEntities == 2
MaxListeners == 2
MaxLog == 9
MaxTime == 1
MaxCompletions == 4
MaxVisited == 3

EntityIds == 1..NumEntities

-----------------------------------------------------------------------------
(* JavaScript values.  A requestedTransition is undefined, null, false,    *)
(* true, a string or a Transition object {name, params}; all are records   *)
(* so that they can be compared.                                           *)

Undef == [shape |-> "undefined", name |-> "", params |-> ""]
Null == [shape |-> "null", name |-> "", params |-> ""]
False == [shape |-> "false", name |-> "", params |-> ""]
True == [shape |-> "true", name |-> "", params |-> ""]
Str(n) == [shape |-> "string", name |-> n, params |-> ""]
Transition(n, p) == [shape |-> "object", name |-> n, params |-> p]
DefaultTransition == Transition("done", "{}")

Truthy(v) == v.shape \in {"true", "string", "object"}

\* the config objects a driver passes to setup(); "undefined" and "null" are
\* the JavaScript values of those names
Configs == {"cfgA", "cfgB"}

NoError == "none"

-----------------------------------------------------------------------------
(* Entity and the leaf entities *)

Kinds == {"Entity", "Transitory", "Decision", "FunctionCallEntity",
          "WaitingEntity", "Block", "WaitForEvent"}

\* the values a Transitory is constructed with, a Decision's f returns and a
\* WaitForEvent's handler returns
TransitionArgs == {DefaultTransition, Str("win"), Null}

NewEntity(kind, arg) ==
    [kind |-> kind, arg |-> arg, isSetup |-> FALSE, rt |-> Undef, cfg |-> "undefined"]

\* The world a call works on: the leaf entities and what they log.
World == [ent |-> ent, listeners |-> listeners, emitter |-> emitter,
          logged |-> {}, hooks |-> {}, log |-> log]

Logged(w, cond, msg) == IF cond THEN [w EXCEPT !.logged = @ \cup {msg}] ELSE w

\* the base class calls the subclass hook of entity i
Hooked(w, hook, i) == [w EXCEPT !.hooks = @ \cup {<<hook, i>>}]

Record(w, what, i) ==
    IF Len(w.log) < MaxLog THEN [w EXCEPT !.log = Append(@, <<what, i>>)] ELSE w

\* Entity._on: push {emitter, event, cb} and emitter.on(event, cb, this)
Entity_on(w, i, event, cb) ==
    [w EXCEPT !.listeners[i] = Append(@, [emitter |-> "em", event |-> event, cb |-> cb]),
              !.emitter = Append(@, [event |-> event, cb |-> cb, ctx |-> i])]

\* _.matcher(props): every key of props, also one whose value is undefined,
\* must be equal in the listener
IsMatch(l, props) ==
    /\ props.emitter = l.emitter
    /\ props.event = l.event
    /\ props.cb = l.cb

RECURSIVE RemoveOne(_, _)
\* EventEmitter.off(event, cb, context): drops the listeners of that triple
RemoveOne(held, x) ==
    IF held = <<>> THEN <<>>
    ELSE IF Head(held) = x THEN RemoveOne(Tail(held), x)
    ELSE <<Head(held)>> \o RemoveOne(Tail(held), x)

RECURSIVE OffAll(_, _, _)
OffAll(held, toRemove, i) ==
    IF toRemove = <<>> THEN held
    ELSE OffAll(RemoveOne(held, [event |-> Head(toRemove).event,
                                 cb |-> Head(toRemove).cb, ctx |-> i]),
                Tail(toRemove), i)

\* Entity._off(emitter, event, cb)
Entity_off(w, i, props) ==
    LET toRemove == SelectSeq(w.listeners[i], LAMBDA l : IsMatch(l, props))
        toKeep == SelectSeq(w.listeners[i], LAMBDA l : ~IsMatch(l, props))
    IN [w EXCEPT !.emitter = OffAll(@, toRemove, i), !.listeners[i] = toKeep]

\* the _setup hook of each kind
Hook_setup(w, i) ==
    LET e == w.ent[i] IN
    CASE e.kind \in {"Transitory", "Decision"} -> [w EXCEPT !.ent[i].rt = e.arg]
      [] e.kind = "FunctionCallEntity" -> [w EXCEPT !.ent[i].rt = True]
      [] e.kind = "WaitForEvent" -> Entity_on(w, i, "ev", "_handleEvent")
      [] OTHER -> w

\* a setup() that forgets to clear requestedTransition
Entity_setup_KeepsTransition(w, i, config) ==
    LET w1 == Logged(w, w.ent[i].isSetup, "setup() called twice")
        w2 == [w1 EXCEPT !.ent[i].cfg = config, !.ent[i].isSetup = TRUE]
    IN Hook_setup(Hooked(w2, "_setup", i), i)

\* Entity.setup(entityConfig, frameInfo)
Entity_setup(w, i, config) ==
    LET w1 == Logged(w, w.ent[i].isSetup, "setup() called twice")
        w2 == [w1 EXCEPT !.ent[i].cfg = config,
                         !.ent[i].isSetup = TRUE,
                         !.ent[i].rt = Null]
    IN Hook_setup(Hooked(w2, "_setup", i), i)

\* the _update hook of each kind; t is frameInfo.timeSinceStart
Hook_update(w, i, t) ==
    LET e == w.ent[i] IN
    IF e.kind = "WaitingEntity" /\ t >= 1 THEN [w EXCEPT !.ent[i].rt = True] ELSE w

\* an update() that returns without running the hook when the entity is
\* not set up
Entity_update_RequiresSetup(w, i, t) ==
    IF w.ent[i].isSetup
    THEN Hook_update(Hooked(w, "_update", i), i, t)
    ELSE Logged(w, TRUE, "update() called before setup()")

\* Entity.update(frameInfo)
Entity_update(w, i, t) ==
    Hook_update(Hooked(Logged(w, ~w.ent[i].isSetup, "update() called before setup()"),
                       "_update", i), i, t)

\* a teardown() that leaves the entity marked as set up
Entity_teardown_StaysSetup(w, i) ==
    LET w1 == Hooked(Logged(w, ~w.ent[i].isSetup, "teardown() called before setup()"),
                     "_teardown", i)
        w2 == Entity_off(w1, i,
                         [emitter |-> "undefined", event |-> "undefined", cb |-> "undefined"])
    IN [w2 EXCEPT !.ent[i].cfg = "null"]

\* Entity.teardown(frameInfo)
Entity_teardown(w, i) ==
    LET w1 == Hooked(Logged(w, ~w.ent[i].isSetup, "teardown() called before setup()"),
                     "_teardown", i)
        w2 == Entity_off(w1, i,
                         [emitter |-> "undefined", event |-> "undefined", cb |-> "undefined"])
    IN [w2 EXCEPT !.ent[i].cfg = "null", !.ent[i].isSetup = FALSE]

\* Entity.onSignal(signal, frameInfo, data); the _onSignal hooks are empty
Entity_onSignal(w, i) ==
    Hooked(Logged(w, w.ent[i].cfg \in {"undefined", "null"},
                  "onSignal() called before setup()"),
           "_onSignal", i)

Commit(w) ==
    /\ ent' = w.ent
    /\ listeners' = w.listeners
    /\ emitter' = w.emitter
    /\ logged' = w.logged
    /\ hooks' = w.hooks
    /\ log' = w.log

\* the last call, and what its target's requestedTransition was before it
Call(op, target, err) ==
    last' = [op |-> op, target |-> target, err |-> err,
             rtBefore |-> IF target \in DOMAIN ent THEN ent[target].rt ELSE Undef]

\* the name under which an onSignal(signal) of a composite is recorded
SignalOp(who, signal) == who \o ".onSignal(" \o signal \o ")"

-----------------------------------------------------------------------------
(* The composites are not constructed in the specification of the leaf     *)
(* entities.                                                               *)

NoPar == [made |-> FALSE]
NoSeq == [made |-> FALSE]
NoSm == [made |-> FALSE]
NoAlt == [made |-> FALSE]
NoSw == [made |-> FALSE]
NoDc == [made |-> FALSE]
\* completions: the child transitions observed by update(); touched: a skip()
\* or a reset happened; added: an entity was added; childTime: the
\* timeSinceStart the last update() passed to the current child (- 1: none)
NoHist == [completions |-> 0, touched |-> FALSE, added |-> FALSE, childTime |-> 0 - 1]

InitWorld ==
    /\ listeners = [i \in DOMAIN ent |-> <<>>]
    /\ emitter = <<>>
    /\ logged = {}
    /\ hooks = {}
    /\ log = <<>>
    /\ last = [op |-> "new", target |-> 0, err |-> NoError, rtBefore |-> Undef]

-----------------------------------------------------------------------------
(* Specification of the leaf entities: a driver calls any method of any    *)
(* entity in any order.                                                    *)

\* the entities the driver of this specification constructs
Driven == {1}

InitEntity ==
    /\ ent \in [Driven -> {NewEntity(k, a) : k \in Kinds, a \in TransitionArgs}]
    /\ \A i \in Driven :
          ent[i].arg # DefaultTransition => ent[i].kind \in {"Transitory", "Decision", "WaitForEvent"}
    /\ InitWorld
    /\ par = NoPar /\ seq = NoSeq /\ sm = NoSm /\ alt = NoAlt /\ sw = NoSw /\ dc = NoDc /\ hist = NoHist

\* the listener bound keeps repeated setup() of a WaitForEvent finite
CanSubscribe(i) == Len(listeners[i]) < MaxListeners

Setup(i, config) ==
    /\ ent[i].kind = "WaitForEvent" => CanSubscribe(i)
    /\ Commit(Entity_setup(World, i, config))
    /\ Call("setup", i, NoError)
    /\ UNCHANGED <<par, seq, sm, alt, sw, dc, hist>>

Update(i, t) ==
    /\ Commit(Entity_update(World, i, t))
    /\ Call("update", i, NoError)
    /\ UNCHANGED <<par, seq, sm, alt, sw, dc, hist>>

Teardown(i) ==
    /\ Commit(Entity_teardown(World, i))
    /\ Call("teardown", i, NoError)
    /\ UNCHANGED <<par, seq, sm, alt, sw, dc, hist>>

OnSignal(i) ==
    /\ Commit(Entity_onSignal(World, i))
    /\ Call("onSignal", i, NoError)
    /\ UNCHANGED <<par, seq, sm, alt, sw, dc, hist>>

\* a subclass subscribing through _on while it is set up
On(i, event, cb) ==
    /\ ent[i].isSetup
    /\ CanSubscribe(i)
    /\ Commit(Entity_on(World, i, event, cb))
    /\ Call("_on", i, NoError)
    /\ UNCHANGED <<par, seq, sm, alt, sw, dc, hist>>

\* a subclass calling _off(emitter, event, cb), cb given or left undefined
Off(i, event, cb) ==
    /\ listeners[i] # <<>>
    /\ Commit(Entity_off(World, i, [emitter |-> "em", event |-> event, cb |-> cb]))
    /\ Call("_off", i, NoError)
    /\ UNCHANGED <<par, seq, sm, alt, sw, dc, hist>>

\* Block.done(transition)
Done(i, transition) ==
    /\ ent[i].kind = "Block"
    /\ ent[i].isSetup
    /\ ent' = [ent EXCEPT ![i].rt = transition]
    /\ Call("done", i, NoError)
    /\ UNCHANGED <<listeners, emitter, logged, hooks, log, par, seq, sm, alt, sw, dc, hist>>

\* the emitter emits "ev": every listener of that event is called with its
\* context; WaitForEvent._handleEvent sets requestedTransition = handler(...)
Emit ==
    /\ \E k \in 1..Len(emitter) : emitter[k].event = "ev" /\ emitter[k].cb = "_handleEvent"
    /\ ent' = [i \in DOMAIN ent |->
                 IF \E k \in 1..Len(emitter) :
                        /\ emitter[k].event = "ev"
                        /\ emitter[k].cb = "_handleEvent"
                        /\ emitter[k].ctx = i
                 THEN [ent[i] EXCEPT !.rt = ent[i].arg]
                 ELSE ent[i]]
    /\ Call("emit", 0, NoError)
    /\ UNCHANGED <<listeners, emitter, logged, hooks, log, par, seq, sm, alt, sw, dc, hist>>

NextEntity ==
    \/ \E i \in Driven, c \in Configs : Setup(i, c)
    \/ \E i \in Driven, t \in 0..MaxTime : Update(i, t)
    \/ \E i \in Driven : Teardown(i)
    \/ \E i \in Driven : OnSignal(i)
    \/ \E i \in Driven, cb \in {"cb1", "cb2"} : On(i, "ev", cb)
    \/ \E i \in Driven, cb \in {"cb1", "undefined"} : Off(i, "ev", cb)
    \/ \E i \in Driven, tr \in {True, Str("win")} : Done(i, tr)
    \/ Emit

SpecEntity == InitEntity /\ [][NextEntity]_vars

-----------------------------------------------------------------------------
(* Claims about Entity *)

\* C1: isSetup is false after construction and after every teardown(), true
\* after every setup(), and no other call changes it.
C1_IsSetupFollowsLifecycle ==
    /\ \A i \in DOMAIN ent : ~ent[i].isSetup
    /\ [][\A i \in DOMAIN ent :
            /\ (last'.target = i /\ last'.op = "teardown") => ~ent'[i].isSetup
            /\ (last'.target = i /\ last'.op = "setup") => ent'[i].isSetup
            /\ ~(last'.target = i /\ last'.op \in {"setup", "teardown"})
                  => ent'[i].isSetup = ent[i].isSetup]_vars

\* a teardown() of an entity that had requested a transition, after which it
\* is not set up
C1_Witness ==
    /\ last.op = "teardown"
    /\ Truthy(last.rtBefore)
    /\ ~ent[last.target].isSetup

RequestedInSetup(e) ==
    CASE e.kind \in {"Transitory", "Decision"} -> e.arg
      [] e.kind = "FunctionCallEntity" -> True
      [] OTHER -> Null

C3_ListenersReleased ==
    last.op = "teardown" =>
        /\ listeners[last.target] = <<>>
        /\ \A k \in 1..Len(emitter) : emitter[k].ctx # last.target

\* C23: an onSignal() runs the _onSignal hook of the entity exactly when
\* the entity is set up.
C23_SignalOnlyWhileSetUp ==
    last.op = "onSignal"
    => (<<"_onSignal", last.target>> \in hooks <=> ent[last.target].isSetup)

\* C24: a setup() on an entity that is set up, and an update() or a
\* teardown() on one that is not, log the violation, run the subclass hook
\* and leave isSetup as the regular call does (true after setup, false
\* after teardown, unchanged by update); no error is raised.
C24_ViolationsAreLogged ==
    [][/\ (last'.op = "setup" /\ ent[last'.target].isSetup)
          => /\ "setup() called twice" \in logged'
             /\ <<"_setup", last'.target>> \in hooks'
             /\ ent'[last'.target].isSetup
             /\ ent'[last'.target].kind \in {"Entity", "Block", "WaitingEntity", "WaitForEvent"}
                   => ent'[last'.target].rt = Null
             /\ last'.err = NoError
       /\ (last'.op = "update" /\ ~ent[last'.target].isSetup)
          => /\ "update() called before setup()" \in logged'
             /\ <<"_update", last'.target>> \in hooks'
             /\ ~ent'[last'.target].isSetup
             /\ last'.err = NoError
       /\ (last'.op = "teardown" /\ ~ent[last'.target].isSetup)
          => /\ "teardown() called before setup()" \in logged'
             /\ <<"_teardown", last'.target>> \in hooks'
             /\ ~ent'[last'.target].isSetup
             /\ ent'[last'.target].cfg = "null"
             /\ last'.err = NoError]_vars

\* an update() on an entity that was never set up: logged, hook run
C24_Witness ==
    /\ last.op = "update"
    /\ ~ent[1].isSetup
    /\ ent[1].cfg = "undefined"
    /\ logged = {"update() called before setup()"}
    /\ hooks = {<<"_update", 1>>}

-----------------------------------------------------------------------------
(* Composites.  A composite is an Entity itself: `self` carries its own    *)
(* Entity fields next to the fields of its class.  A call that throws sets *)
(* err and performs nothing after the throw.                               *)

WorldOf(c) == [ent |-> ent, listeners |-> listeners, emitter |-> emitter,
               logged |-> {}, hooks |-> {}, log |-> log, self |-> c, err |-> NoError]

Throw(w, e) == [w EXCEPT !.err = e]

\* Entity.setup, update, teardown and onSignal on the composite itself; it
\* has no hooks and no subscriptions
Self_setup(w, config) ==
    LET w1 == Logged(w, w.self.isSetup, "setup() called twice")
    IN [w1 EXCEPT !.self.cfg = config, !.self.isSetup = TRUE, !.self.rt = Null]

Self_update(w) == Logged(w, ~w.self.isSetup, "update() called before setup()")

Self_teardown(w) ==
    LET w1 == Logged(w, ~w.self.isSetup, "teardown() called before setup()")
    IN [w1 EXCEPT !.self.cfg = "null", !.self.isSetup = FALSE]

Self_onSignal(w) ==
    Logged(w, w.self.cfg \in {"undefined", "null"}, "onSignal() called before setup()")

\* processEntityConfig(config, alteredConfig); an override is a literal
processEntityConfig(config, alteredConfig) ==
    IF alteredConfig = "undefined" THEN config ELSE alteredConfig

NullContext == [entity |-> 0, config |-> "null"]

\* BaseComposite._activateChildEntity for a descriptor that is an Entity:
\* the child is set up with the composite's entityConfig
EntityContext(w, d) == [entity |-> d, config |-> processEntityConfig(w.self.cfg, "undefined")]

BaseComposite_activateChildEntity(w, d) ==
    Record(Entity_setup(w, d, processEntityConfig(w.self.cfg, "undefined")), "setup", d)

\* BaseComposite._deactivateChildEntity
BaseComposite_deactivateChildEntity(w, ctx) ==
    Record(Entity_teardown(w, ctx.entity), "teardown", ctx.entity)

\* BaseComposite._updateChildEntity; its return value is the child's
\* requestedTransition when that is truthy
BaseComposite_updateChildEntity(w, ctx, t) ==
    LET w1 == Entity_update(w, ctx.entity, t)
    IN IF ~Truthy(w1.ent[ctx.entity].rt) THEN w1
       ELSE BaseComposite_deactivateChildEntity(w1, ctx)

-----------------------------------------------------------------------------
(* Parallel *)

EmptyObject == [k \in {} |-> TRUE]

\* new ParallelOptions()
ParallelOptions == [k \in {"autoTransition"} |-> TRUE]

\* { ...a, ...b }
Spread(a, b) == [k \in DOMAIN a \cup DOMAIN b |-> IF k \in DOMAIN b THEN b[k] ELSE a[k]]

\* new Parallel(entityContextDescriptors, options); entityContexts is not
\* assigned by the constructor
NewParallel(descriptors, options) ==
    [made |-> TRUE, isSetup |-> FALSE, rt |-> Undef, cfg |-> "undefined",
     entityContextDescriptors |-> descriptors,
     optionsArg |-> options,
     options |-> Spread(options, ParallelOptions),
     hasEntityContexts |-> FALSE, entityContexts |-> <<>>]

\* the loop of Parallel.setup from descriptor i on
RECURSIVE Parallel_setupFrom(_, _)
Parallel_setupFrom(w, i) ==
    IF i > Len(w.self.entityContextDescriptors) THEN w
    ELSE IF ~w.self.hasEntityContexts THEN Throw(w, "TypeError")
    ELSE LET d == w.self.entityContextDescriptors[i]
             w1 == BaseComposite_activateChildEntity(w, d)
         IN Parallel_setupFrom(
                [w1 EXCEPT !.self.entityContexts = Append(@, EntityContext(w, d))], i + 1)

\* Parallel.setup
Parallel_setup(w, config) == Parallel_setupFrom(Self_setup(w, config), 1)

\* the loop of Parallel.update from slot i on
RECURSIVE Parallel_updateFrom(_, _, _)
Parallel_updateFrom(w, i, t) ==
    IF i > Len(w.self.entityContexts) THEN w
    ELSE LET ctx == w.self.entityContexts[i] IN
         IF ctx = NullContext THEN Parallel_updateFrom(w, i + 1, t)
         ELSE LET w1 == BaseComposite_updateChildEntity(w, ctx, t) IN
              IF Truthy(w1.ent[ctx.entity].rt)
              THEN Parallel_updateFrom(
                       [BaseComposite_deactivateChildEntity(w1, ctx)
                           EXCEPT !.self.entityContexts[i] = NullContext], i + 1, t)
              ELSE Parallel_updateFrom(w1, i + 1, t)

\* _.some(this.entityContexts)
SomeContext(c) == \E k \in 1..Len(c.entityContexts) : c.entityContexts[k] # NullContext

\* Parallel.update
Parallel_update(w, t) ==
    LET w0 == Self_update(w) IN
    IF ~w0.self.hasEntityContexts THEN Throw(w0, "TypeError")
    ELSE LET w1 == Parallel_updateFrom(w0, 1, t) IN
         IF w1.self.options["autoTransition"] /\ ~SomeContext(w1.self)
         THEN [w1 EXCEPT !.self.rt = DefaultTransition]
         ELSE w1

\* the loop of Parallel.teardown from slot i on
RECURSIVE Parallel_teardownFrom(_, _)
Parallel_teardownFrom(w, i) ==
    IF i > Len(w.self.entityContexts) THEN w
    ELSE LET ctx == w.self.entityContexts[i] IN
         Parallel_teardownFrom(
             IF ctx = NullContext THEN w ELSE BaseComposite_deactivateChildEntity(w, ctx),
             i + 1)

\* Parallel.teardown
Parallel_teardown(w) ==
    IF ~w.self.hasEntityContexts THEN Throw(w, "TypeError")
    ELSE Self_teardown([Parallel_teardownFrom(w, 1)
                           EXCEPT !.self.entityContexts = <<>>])

\* Parallel.addChildEntity
Parallel_addChildEntity(w, d) ==
    LET w1 == [w EXCEPT !.self.entityContextDescriptors = Append(@, d)] IN
    IF ~w1.self.isSetup THEN w1
    ELSE IF ~w1.self.hasEntityContexts THEN Throw(w1, "TypeError")
    ELSE [BaseComposite_activateChildEntity(w1, d)
             EXCEPT !.self.entityContexts = Append(@, EntityContext(w1, d))]

\* Array.prototype.indexOf, 0 when absent (0-based -1)
IndexOf(list, x) ==
    IF \E k \in 1..Len(list) : list[k] = x
    THEN CHOOSE k \in 1..Len(list) : list[k] = x /\ \A j \in 1..(k - 1) : list[j] # x
    ELSE 0

\* Array.prototype.splice(index, 1); an index past the end removes nothing
Splice(list, k) ==
    IF k \in 1..Len(list)
    THEN SubSeq(list, 1, k - 1) \o SubSeq(list, k + 1, Len(list))
    ELSE list

\* this.entityContexts[index] is truthy
ActiveSlot(c, k) == k \in 1..Len(c.entityContexts) /\ c.entityContexts[k] # NullContext

\* Parallel.removeChildEntity
Parallel_removeChildEntity(w, d) ==
    LET index == IndexOf(w.self.entityContextDescriptors, d) IN
    IF index = 0 THEN Throw(w, "Cannot find entity to remove")
    ELSE IF w.self.isSetup /\ ~w.self.hasEntityContexts THEN Throw(w, "TypeError")
    ELSE LET w1 == IF w.self.isSetup /\ ActiveSlot(w.self, index)
                   THEN [BaseComposite_deactivateChildEntity(w, w.self.entityContexts[index])
                            EXCEPT !.self.entityContexts = Splice(@, index)]
                   ELSE w
         IN [w1 EXCEPT !.self.entityContextDescriptors = Splice(@, index)]

\* this.entityContexts[index] = v; an index past the end leaves holes
SetSlot(list, k, v) ==
    [j \in 1..(IF k > Len(list) THEN k ELSE Len(list)) |->
        IF j = k THEN v ELSE IF j <= Len(list) THEN list[j] ELSE NullContext]

\* Parallel.activateChildEntity
Parallel_activateChildEntity(w, d) ==
    IF ~w.self.isSetup THEN w
    ELSE LET index == IndexOf(w.self.entityContextDescriptors, d) IN
         IF index = 0 THEN Throw(w, "Cannot find entity to remove")
         ELSE IF ~w.self.hasEntityContexts THEN Throw(w, "TypeError")
         ELSE IF ActiveSlot(w.self, index) THEN Throw(w, "Entity is already activated")
         ELSE [BaseComposite_activateChildEntity(w, d)
                  EXCEPT !.self.entityContexts = SetSlot(@, index, EntityContext(w, d))]

\* a deactivateChildEntity that returns quietly when the descriptor is not
\* in the list
Parallel_deactivateChildEntity_Lenient(w, d) ==
    IF ~w.self.isSetup THEN w
    ELSE LET index == IndexOf(w.self.entityContextDescriptors, d) IN
         IF index = 0 THEN w
         ELSE IF ~w.self.hasEntityContexts THEN Throw(w, "TypeError")
         ELSE IF ActiveSlot(w.self, index) THEN Throw(w, "Entity is already activated")
         ELSE Throw(w, "TypeError")

\* Parallel.deactivateChildEntity: an active slot throws; for an inactive
\* one _deactivateChildEntity reads the entity of null
Parallel_deactivateChildEntity(w, d) ==
    IF ~w.self.isSetup THEN w
    ELSE LET index == IndexOf(w.self.entityContextDescriptors, d) IN
         IF index = 0 THEN Throw(w, "Cannot find entity to remove")
         ELSE IF ~w.self.hasEntityContexts THEN Throw(w, "TypeError")
         ELSE IF ActiveSlot(w.self, index) THEN Throw(w, "Entity is already activated")
         ELSE Throw(w, "TypeError")

CommitPar(w) == Commit(w) /\ par' = w.self

\* the sequences of distinct elements of S
Lists(S) == {l \in UNION {[1..n -> S] : n \in 0..Cardinality(S)} :
                \A a, b \in 1..Len(l) : a # b => l[a] # l[b]}

OptionArgs == {EmptyObject, [k \in {"autoTransition"} |-> FALSE],
               [k \in {"autoTransition"} |-> TRUE]}

ChildKinds == {"Block", "Transitory", "Entity"}

InitParallel ==
    /\ ent \in [EntityIds -> {NewEntity(k, DefaultTransition) : k \in ChildKinds}]
    /\ InitWorld
    /\ \E ds \in Lists(EntityIds), o \in OptionArgs : par = NewParallel(ds, o)
    /\ seq = NoSeq /\ sm = NoSm /\ alt = NoAlt /\ sw = NoSw /\ dc = NoDc /\ hist = NoHist

ParSetup(config) ==
    /\ ~par.isSetup
    /\ LET w == Parallel_setup(WorldOf(par), config)
       IN CommitPar(w) /\ Call("par.setup", 0, w.err)
    /\ UNCHANGED <<seq, sm, alt, sw, dc, hist>>

ParUpdate(t) ==
    /\ par.isSetup
    /\ LET w == Parallel_update(WorldOf(par), t)
       IN CommitPar(w) /\ Call("par.update", 0, w.err)
    /\ UNCHANGED <<seq, sm, alt, sw, dc, hist>>

ParTeardown ==
    /\ par.isSetup
    /\ LET w == Parallel_teardown(WorldOf(par))
       IN CommitPar(w) /\ Call("par.teardown", 0, w.err)
    /\ UNCHANGED <<seq, sm, alt, sw, dc, hist>>

\* the descriptor added is an entity that is not in the list
ParAddChildEntity(d) ==
    /\ IndexOf(par.entityContextDescriptors, d) = 0
    /\ LET w == Parallel_addChildEntity(WorldOf(par), d)
       IN CommitPar(w) /\ Call("par.addChildEntity", d, w.err)
    /\ UNCHANGED <<seq, sm, alt, sw, dc, hist>>

ParRemoveChildEntity(d) ==
    /\ LET w == Parallel_removeChildEntity(WorldOf(par), d)
       IN CommitPar(w) /\ Call("par.removeChildEntity", d, w.err)
    /\ UNCHANGED <<seq, sm, alt, sw, dc, hist>>

ParActivateChildEntity(d) ==
    /\ LET w == Parallel_activateChildEntity(WorldOf(par), d)
       IN CommitPar(w) /\ Call("par.activateChildEntity", d, w.err)
    /\ UNCHANGED <<seq, sm, alt, sw, dc, hist>>

ParDeactivateChildEntity(d) ==
    /\ LET w == Parallel_deactivateChildEntity(WorldOf(par), d)
       IN CommitPar(w) /\ Call("par.deactivateChildEntity", d, w.err)
    /\ UNCHANGED <<seq, sm, alt, sw, dc, hist>>

\* Block.done on a child that is set up
ChildDone(i, transition) ==
    /\ ent[i].kind = "Block"
    /\ ent[i].isSetup
    /\ ent' = [ent EXCEPT ![i].rt = transition]
    /\ Call("done", i, NoError)
    /\ UNCHANGED <<listeners, emitter, logged, hooks, log, par, seq, sm, alt, sw, dc, hist>>

NextParallel ==
    \/ \E c \in Configs : ParSetup(c)
    \/ \E t \in 0..MaxTime : ParUpdate(t)
    \/ ParTeardown
    \/ \E d \in EntityIds : ParAddChildEntity(d)
    \/ \E d \in EntityIds : ParRemoveChildEntity(d)
    \/ \E d \in EntityIds : ParActivateChildEntity(d)
    \/ \E d \in EntityIds : ParDeactivateChildEntity(d)

SpecParallel == InitParallel /\ [][NextParallel]_vars

-----------------------------------------------------------------------------
(* Claims about Parallel *)

\* C4: after every update() of a Parallel with autoTransition and at least
\* one child, the call has returned and requestedTransition is non-null
\* exactly when no child is active any more.
C4_TransitionWhenLastChildDone ==
    (/\ last.op = "par.update"
     /\ par.options["autoTransition"]
     /\ Len(par.entityContextDescriptors) >= 1)
    => /\ last.err = NoError
       /\ Truthy(par.rt) <=> ~SomeContext(par)

\* C5: a Parallel constructed with {autoTransition: false} has autoTransition
\* off, so that update() never sets its requestedTransition.
C5_AutoTransitionOff ==
    ("autoTransition" \in DOMAIN par.optionsArg /\ ~par.optionsArg["autoTransition"])
    => /\ ~par.options["autoTransition"]
       /\ ~Truthy(par.rt)

\* the descriptor d is in the descriptor list of the Parallel
Listed(d) == IndexOf(par.entityContextDescriptors, d) # 0

\* C12: on a Parallel that setup() has just been called on, so that every
\* descriptor of its list is to be active, deactivateChildEntity(d) for a
\* listed d returns without error with the child torn down and d's slot
\* null, and an activateChildEntity(d) that follows a deactivation returns
\* without error with d's slot holding a context whose entity is set up
\* with requestedTransition null.
C12_DeactivateThenActivate ==
    [][/\ (/\ last.op = "par.setup" /\ par.isSetup
           /\ last'.op = "par.deactivateChildEntity"
           /\ Listed(last'.target))
          => /\ last'.err = NoError
             /\ ~ent'[last'.target].isSetup
             /\ ~ActiveSlot(par', IndexOf(par.entityContextDescriptors, last'.target))
       /\ (/\ last.op = "par.deactivateChildEntity" /\ last.err = NoError
           /\ par.isSetup
           /\ last'.op = "par.activateChildEntity"
           /\ last'.target = last.target)
          => /\ last'.err = NoError
             /\ ActiveSlot(par', IndexOf(par.entityContextDescriptors, last'.target))
             /\ ent'[last'.target].isSetup
             /\ ent'[last'.target].rt = Null]_vars

C25_TeardownAlwaysSafe ==
    last.op \in {"par.teardown", "seq.teardown", "sm.teardown"}
    => /\ last.err = NoError
       /\ \A i \in DOMAIN ent : ~ent[i].isSetup
       /\ "teardown() called before setup()" \notin logged

\* C26: after an update() of a Parallel with children, the call has
\* returned, every child that has a requested transition is torn down with
\* its slot null, and no teardown() was called on a child that was not set
\* up.
C26_CompletedChildTornDownOnce ==
    (last.op = "par.update" /\ Len(par.entityContextDescriptors) >= 1)
    => /\ last.err = NoError
       /\ "teardown() called before setup()" \notin logged
       /\ \A k \in 1..Len(par.entityContextDescriptors) :
             Truthy(ent[par.entityContextDescriptors[k]].rt)
             => /\ ~ActiveSlot(par, k)
                /\ ~ent[par.entityContextDescriptors[k]].isSetup

\* C27: after a setup() of a Parallel, the call has returned, the context
\* list is as long as the descriptor list, and slot i holds a context
\* whose entity is the set-up child of descriptor i.
C27_SetupActivatesEveryDescriptor ==
    last.op = "par.setup"
    => /\ last.err = NoError
       /\ Len(par.entityContexts) = Len(par.entityContextDescriptors)
       /\ \A k \in 1..Len(par.entityContextDescriptors) :
             /\ ActiveSlot(par, k)
             /\ par.entityContexts[k].entity = par.entityContextDescriptors[k]
             /\ ent[par.entityContextDescriptors[k]].isSetup

\* C34: while a Parallel is set up it has a context list as long as its
\* descriptor list, and a context at index i is that of the child activated
\* from the descriptor at index i.
C34_SlotsStayAligned ==
    par.isSetup =>
        /\ par.hasEntityContexts
        /\ Len(par.entityContexts) = Len(par.entityContextDescriptors)
        /\ \A k \in 1..Len(par.entityContexts) :
              ActiveSlot(par, k) =>
                  par.entityContexts[k].entity = par.entityContextDescriptors[k]

-----------------------------------------------------------------------------
(* EntitySequence *)

\* this.config: Entity defines the getter entityConfig only, so the property
\* `config` that the composites read is undefined
Entity_config(c) == "undefined"

\* an undefined number is -1; undefined.timeSinceStart throws, and a
\* subtraction with undefined gives NaN, which is -1 too (no comparison with
\* it holds)
UndefinedNumber == 0 - 1

Minus(a, b) == IF a = UndefinedNumber \/ b = UndefinedNumber THEN UndefinedNumber ELSE a - b

\* new EntitySequence(entities, {loop}); entity 0 is no entity
NewEntitySequence(entities, loop) ==
    [made |-> TRUE, isSetup |-> FALSE, rt |-> Undef, cfg |-> "undefined",
     entities |-> entities, currentEntityIndex |-> 0, currentEntity |-> 0,
     loop |-> loop, childStartedAt |-> UndefinedNumber,
     lastUpdateOptions |-> UndefinedNumber, lastRequestedTransition |-> Undef]

SeqWorldOf(c) ==
    [ent |-> ent, listeners |-> listeners, emitter |-> emitter, logged |-> {}, hooks |-> {},
     log |-> log, self |-> c, err |-> NoError, hist |-> hist]

\* EntitySequence._activateEntity(time)
EntitySequence_activateEntity(w, time) ==
    IF w.self.currentEntityIndex >= Len(w.self.entities)
    THEN Throw([w EXCEPT !.self.currentEntity = 0], "TypeError")
    ELSE LET d == w.self.entities[w.self.currentEntityIndex + 1]
             w1 == [w EXCEPT !.self.currentEntity = d]
             w2 == Record(Entity_setup(w1, d, Entity_config(w1.self)), "setup", d)
         IN [w2 EXCEPT !.self.childStartedAt = time]

\* EntitySequence._deactivateEntity
EntitySequence_deactivateEntity(w) ==
    IF w.self.currentEntity # 0 /\ w.ent[w.self.currentEntity].isSetup
    THEN Record(Entity_teardown(w, w.self.currentEntity), "teardown", w.self.currentEntity)
    ELSE w

\* this._activateEntity(this.lastUpdateOptions.timeSinceStart)
EntitySequence_activateAtLastUpdate(w) ==
    IF w.self.lastUpdateOptions = UndefinedNumber THEN Throw(w, "TypeError")
    ELSE EntitySequence_activateEntity(w, w.self.lastUpdateOptions)

\* an _advance that moves on also from the last index
EntitySequence_advance_PastEnd(w, transition) ==
    LET w1 == EntitySequence_deactivateEntity(w) IN
    IF w.self.currentEntityIndex < Len(w.self.entities)
    THEN EntitySequence_activateAtLastUpdate(
             [w1 EXCEPT !.self.currentEntityIndex = @ + 1])
    ELSE [w1 EXCEPT !.self.rt = transition]

\* an _advance that finishes with a new Transition, as Parallel does
EntitySequence_advance_OwnTransition(w, transition) ==
    LET w1 == EntitySequence_deactivateEntity(w) IN
    IF w.self.currentEntityIndex < Len(w.self.entities) - 1
    THEN EntitySequence_activateAtLastUpdate(
             [w1 EXCEPT !.self.currentEntityIndex = @ + 1])
    ELSE IF w.self.loop
    THEN EntitySequence_activateAtLastUpdate([w1 EXCEPT !.self.currentEntityIndex = 0])
    ELSE [w1 EXCEPT !.self.rt = DefaultTransition]

\* an _advance that, looping, activates the next entity without tearing the
\* last one down
EntitySequence_advance_NoTeardownOnLoop(w, transition) ==
    LET w1 == EntitySequence_deactivateEntity(w) IN
    IF w.self.currentEntityIndex < Len(w.self.entities) - 1
    THEN EntitySequence_activateAtLastUpdate(
             [w1 EXCEPT !.self.currentEntityIndex = @ + 1])
    ELSE IF w.self.loop
    THEN EntitySequence_activateAtLastUpdate([w EXCEPT !.self.currentEntityIndex = 0])
    ELSE [w1 EXCEPT !.self.rt = transition]

\* an _advance that goes on advancing when the entity it has activated
\* already requests a transition
EntitySequence_advance_Cascades(w, transition) ==
    LET Step(x) ==
            LET x1 == EntitySequence_deactivateEntity(x) IN
            IF x.self.currentEntityIndex < Len(x.self.entities) - 1
            THEN EntitySequence_activateAtLastUpdate(
                     [x1 EXCEPT !.self.currentEntityIndex = @ + 1])
            ELSE IF x.self.loop
            THEN EntitySequence_activateAtLastUpdate([x1 EXCEPT !.self.currentEntityIndex = 0])
            ELSE [x1 EXCEPT !.self.rt = transition]
        w2 == Step(w)
    IN IF /\ w2.err = NoError
          /\ w2.self.currentEntity # 0
          /\ w2.ent[w2.self.currentEntity].isSetup
          /\ Truthy(w2.ent[w2.self.currentEntity].rt)
       THEN Step(w2)
       ELSE w2

\* EntitySequence._advance(transition)
EntitySequence_advance(w, transition) ==
    LET w1 == EntitySequence_deactivateEntity(w) IN
    IF w.self.currentEntityIndex < Len(w.self.entities) - 1
    THEN EntitySequence_activateAtLastUpdate(
             [w1 EXCEPT !.self.currentEntityIndex = @ + 1])
    ELSE IF w.self.loop
    THEN EntitySequence_activateAtLastUpdate([w1 EXCEPT !.self.currentEntityIndex = 0])
    ELSE [w1 EXCEPT !.self.rt = transition]

\* EntitySequence.setup(config)
EntitySequence_setup(w, config) ==
    LET w1 == Self_setup(w, config)
        w2 == [w1 EXCEPT !.self.currentEntityIndex = 0, !.self.currentEntity = 0,
                         !.hist = NoHist, !.log = <<>>]
    IN EntitySequence_activateEntity(w2, 0)

\* EntitySequence.update(options); t is options.timeSinceStart.  hist counts
\* the child transitions the sequence has observed.
EntitySequence_update(w, t) ==
    LET w0 == Self_update(w) IN
    IF Truthy(w0.self.lastRequestedTransition) THEN w0
    ELSE LET timeSinceChildStart == Minus(t, w0.self.childStartedAt)
             w1 == [w0 EXCEPT !.self.lastUpdateOptions = t]
         IN IF w1.self.currentEntityIndex >= Len(w1.self.entities) THEN w1
            ELSE IF w1.self.currentEntity = 0 THEN Throw(w1, "TypeError")
            ELSE LET w2 == Entity_update([w1 EXCEPT !.hist.childTime = timeSinceChildStart],
                                         w1.self.currentEntity, timeSinceChildStart)
                     transition == w2.ent[w1.self.currentEntity].rt
                 IN IF Truthy(transition)
                    THEN EntitySequence_advance(
                             [w2 EXCEPT !.hist.completions = @ + 1], transition)
                    ELSE w2

\* EntitySequence.teardown()
EntitySequence_teardown(w) == Self_teardown(EntitySequence_deactivateEntity(w))

\* EntitySequence.restart()
EntitySequence_restart(w) ==
    LET w1 == EntitySequence_deactivateEntity(w)
    IN EntitySequence_activateEntity(
           [w1 EXCEPT !.self.currentEntityIndex = 0, !.self.rt = False], 0)

\* EntitySequence.onSignal(signal, frameInfo, data)
EntitySequence_onSignal(w, signal) ==
    IF Truthy(w.self.rt) THEN w
    ELSE LET w1 == Self_onSignal(w) IN
         IF w1.self.currentEntity = 0 THEN Throw(w1, "TypeError")
         ELSE LET w2 == Entity_onSignal(w1, w1.self.currentEntity) IN
              IF signal = "reset"
              THEN EntitySequence_restart([w2 EXCEPT !.hist.touched = TRUE])
              ELSE w2

\* EntitySequence.addEntity(entity)
EntitySequence_addEntity(w, d) ==
    IF Truthy(w.self.rt) THEN w
    ELSE [w EXCEPT !.self.entities = Append(@, d), !.hist.added = TRUE]

\* a skip() that advances also after the sequence has finished
EntitySequence_skip_Always(w) ==
    EntitySequence_advance([w EXCEPT !.hist.touched = TRUE],
                           Transition("skip", "undefined"))

\* EntitySequence.skip()
EntitySequence_skip(w) ==
    IF Truthy(w.self.rt) THEN w
    ELSE EntitySequence_advance([w EXCEPT !.hist.touched = TRUE],
                                Transition("skip", "undefined"))

CommitSeq(w) == Commit(w) /\ seq' = w.self /\ hist' = w.hist

SeqChildKinds == {"Block", "Transitory"}

InitSeq ==
    /\ ent \in [EntityIds -> {NewEntity(k, Str("win")) : k \in SeqChildKinds}]
    /\ InitWorld
    /\ \E n \in 0..NumEntities, l \in BOOLEAN :
          seq = NewEntitySequence([k \in 1..n |-> k], l)
    /\ par = NoPar /\ sm = NoSm /\ alt = NoAlt /\ sw = NoSw /\ dc = NoDc /\ hist = NoHist

\* every call leaves room in the log for the two child calls it can make
LogHasRoom == Len(log) + 2 <= MaxLog

SeqSetup(config) ==
    /\ ~seq.isSetup
    /\ LogHasRoom
    /\ LET w == EntitySequence_setup(SeqWorldOf(seq), config)
       IN CommitSeq(w) /\ Call("seq.setup", 0, w.err)
    /\ UNCHANGED <<par, sm, alt, sw, dc>>

\* the driver's timeSinceStart does not go back
SeqUpdate(t) ==
    /\ seq.isSetup
    /\ LogHasRoom
    /\ t >= seq.lastUpdateOptions
    /\ hist.completions < MaxCompletions
    /\ LET w == EntitySequence_update(SeqWorldOf(seq), t)
       IN CommitSeq(w) /\ Call("seq.update", 0, w.err)
    /\ UNCHANGED <<par, sm, alt, sw, dc>>

SeqTeardown ==
    /\ seq.isSetup
    /\ LogHasRoom
    /\ LET w == EntitySequence_teardown(SeqWorldOf(seq))
       IN CommitSeq(w) /\ Call("seq.teardown", 0, w.err)
    /\ UNCHANGED <<par, sm, alt, sw, dc>>

SeqOnSignal(signal) ==
    /\ seq.isSetup
    /\ LogHasRoom
    /\ LET w == EntitySequence_onSignal(SeqWorldOf(seq), signal)
       IN CommitSeq(w) /\ Call(SignalOp("seq", signal), 0, w.err)
    /\ UNCHANGED <<par, sm, alt, sw, dc>>

\* the entity added is the next one constructed
SeqAddEntity(d) ==
    /\ d = Len(seq.entities) + 1
    /\ LET w == EntitySequence_addEntity(SeqWorldOf(seq), d)
       IN CommitSeq(w) /\ Call("seq.addEntity", d, w.err)
    /\ UNCHANGED <<par, sm, alt, sw, dc>>

SeqSkip ==
    /\ seq.isSetup
    /\ LogHasRoom
    /\ LET w == EntitySequence_skip(SeqWorldOf(seq))
       IN CommitSeq(w) /\ Call("seq.skip", 0, w.err)
    /\ UNCHANGED <<par, sm, alt, sw, dc>>

NextSeq ==
    \/ SeqSetup("cfgA")
    \/ \E t \in 0..MaxTime : SeqUpdate(t)
    \/ SeqTeardown
    \/ \E sig \in {"reset", "pause"} : SeqOnSignal(sig)
    \/ \E d \in EntityIds : SeqAddEntity(d)
    \/ SeqSkip
    \/ \E i \in EntityIds : ChildDone(i, True)

SpecSeq == InitSeq /\ [][NextSeq]_vars

\* A non-looping sequence of one entity or more that is set up and then only
\* updated, while its Block children come to request their transition.
InitSeqRun ==
    /\ InitSeq
    /\ ~seq.loop
    /\ Len(seq.entities) >= 1

NextSeqRun ==
    \/ SeqSetup("cfgA")
    \/ \E t \in 0..MaxTime : SeqUpdate(t)
    \/ \E i \in EntityIds : ChildDone(i, True)

\* some update() can be called and would change the state: the state
\* predicate that ENABLED <<\E t \in 0..MaxTime : SeqUpdate(t)>>_vars is
SeqUpdateEnabled ==
    /\ seq.isSetup
    /\ LogHasRoom
    /\ hist.completions < MaxCompletions
    /\ \E t \in 0..MaxTime :
          /\ t >= seq.lastUpdateOptions
          /\ LET w == EntitySequence_update(SeqWorldOf(seq), t) IN
             <<w.ent, w.listeners, w.emitter, w.logged, w.hooks, w.log, w.self, w.hist,
               [op |-> "seq.update", target |-> 0, err |-> w.err, rtBefore |-> Undef]>>
             # <<ent, listeners, emitter, logged, hooks, log, seq, hist, last>>

\* weak fairness of update(), WF_vars(\E t \in 0..MaxTime : SeqUpdate(t)),
\* with its enabling condition written as the state predicate above
SeqUpdateFair ==
    \/ []<>(~SeqUpdateEnabled)
    \/ []<><<\E t \in 0..MaxTime : SeqUpdate(t)>>_vars

\* the sequence keeps being updated, and a child that can request its
\* transition does so in the end
SpecSeqRun ==
    /\ InitSeqRun /\ [][NextSeqRun]_vars
    /\ SeqUpdateFair
    /\ WF_vars(\E i \in EntityIds : ChildDone(i, True))

-----------------------------------------------------------------------------
(* Claims about EntitySequence *)

\* a set-up sequence that has been driven by update() alone since setup()
UpdatesOnly == seq.isSetup /\ ~hist.touched /\ Len(seq.entities) >= 1

\* C6: in a non-looping sequence of N entities, requestedTransition is null
\* after fewer than N child completions and equals the last entity's
\* requested transition once N completions have happened.
C6_LastTransitionAfterN ==
    (UpdatesOnly /\ ~seq.loop) =>
        LET N == Len(seq.entities) IN
        /\ hist.completions < N => seq.rt = Null
        /\ hist.completions >= N =>
              /\ Truthy(seq.rt)
              /\ seq.rt = ent[seq.entities[N]].rt

\* two entities, the second one a Block that asked for `true` on its turn
C6_Witness ==
    /\ UpdatesOnly /\ ~seq.loop
    /\ Len(seq.entities) = 2
    /\ hist.completions = 2
    /\ ent[2].kind = "Block"
    /\ seq.rt = True

\* C7: in every state of a set-up sequence with N >= 1 entities,
\* 0 <= currentEntityIndex <= N - 1.
C7_IndexInRange ==
    (seq.isSetup /\ Len(seq.entities) >= 1) =>
        /\ 0 <= seq.currentEntityIndex
        /\ seq.currentEntityIndex <= Len(seq.entities) - 1

\* a skip() at the last index of a non-looping sequence of two or more
\* entities: the index stays at N - 1
C7_Witness ==
    /\ seq.isSetup
    /\ last.op = "seq.skip"
    /\ Len(seq.entities) >= 2
    /\ seq.currentEntityIndex = Len(seq.entities) - 1
    /\ seq.rt = Transition("skip", "undefined")

\* the child calls of c completions over the entities es, looping: each visit
\* is a setup and a teardown, and the next entity is set up
LoopLog(es, c) ==
    [k \in 1..(2 * c + 1) |->
        IF k % 2 = 1
        THEN <<"setup", es[(((k - 1) \div 2) % Len(es)) + 1]>>
        ELSE <<"teardown", es[(((k \div 2) - 1) % Len(es)) + 1]>>]

\* C8: in a looping sequence, each completion tears the current entity down
\* and sets up the next one, entity 0 after entity N-1, so that the entities
\* are visited in index order round after round, and the sequence's
\* requestedTransition stays null.
C8_LoopVisitsInOrder ==
    (UpdatesOnly /\ seq.loop /\ ~hist.added) =>
        /\ log = LoopLog(seq.entities, hist.completions)
        /\ seq.currentEntityIndex = hist.completions % Len(seq.entities)
        /\ seq.rt = Null

\* two rounds over two entities
C8_Witness ==
    /\ UpdatesOnly /\ seq.loop /\ ~hist.added
    /\ Len(seq.entities) = 2
    /\ hist.completions = 4
    /\ log = <<<<"setup", 1>>, <<"teardown", 1>>, <<"setup", 2>>, <<"teardown", 2>>,
               <<"setup", 1>>, <<"teardown", 1>>, <<"setup", 2>>, <<"teardown", 2>>,
               <<"setup", 1>>>>

\* C18: an onSignal("reset") on a set-up EntitySequence that has a current
\* child returns with the current child torn down (when it was still set
\* up) and the entity at index 0 activated, wherever the sequence was,
\* also when it had finished and requested its transition.
C18_ResetRestartsFromZero ==
    [][(/\ last'.op = SignalOp("seq", "reset")
        /\ seq.isSetup
        /\ seq.currentEntity # 0)
       => /\ last'.err = NoError
          /\ seq'.currentEntityIndex = 0
          /\ seq'.currentEntity = seq.entities[1]
          /\ ent'[seq.entities[1]].isSetup
          /\ log' = log \o (IF ent[seq.currentEntity].isSetup
                            THEN <<<<"teardown", seq.currentEntity>>>> ELSE <<>>)
                       \o <<<<"setup", seq.entities[1]>>>>]_vars

\* the call has activated a child: a setup is the last child call it made
Activated == Len(log') > Len(log) /\ log'[Len(log')][1] = "setup"

\* C28: an update() passes the current child timeSinceStart minus the
\* baseline childStartedAt, and the baseline is 0 for the child activated
\* by setup() and otherwise the sequence's timeSinceStart when the child
\* was activated: that of the update() that advanced or looped, and that of
\* the latest update() for a skip() or a reset.
C28_ChildTimeFromActivation ==
    [][/\ (/\ last'.op = "seq.update" /\ last'.err = NoError
           /\ seq.currentEntityIndex < Len(seq.entities))
          => hist'.childTime = Minus(seq'.lastUpdateOptions, seq.childStartedAt)
       /\ (last'.op = "seq.setup" /\ last'.err = NoError)
          => seq'.childStartedAt = 0
       /\ (last'.op = "seq.update" /\ last'.err = NoError /\ Activated)
          => seq'.childStartedAt = seq'.lastUpdateOptions
       /\ (/\ last'.op \in {"seq.skip", SignalOp("seq", "reset")}
           /\ last'.err = NoError /\ Activated
           /\ seq.lastUpdateOptions # UndefinedNumber)
          => seq'.childStartedAt = seq.lastUpdateOptions]_vars

\* the child calls made by the call
NewCalls == SubSeq(log', Len(log) + 1, Len(log'))

C35_NoUpdateOfTornDownChild ==
    [][last'.op = "seq.update" =>
          /\ \A i \in EntityIds : <<"_update", i>> \in hooks' => ent[i].isSetup
          /\ (/\ ~seq.loop
              /\ Truthy(seq.rt)
              /\ seq.currentEntity # 0
              /\ ~ent[seq.currentEntity].isSetup)
             => /\ \A i \in EntityIds : <<"_update", i>> \notin hooks'
                /\ seq'.rt = seq.rt
                /\ seq'.currentEntityIndex = seq.currentEntityIndex]_vars

\* the child calls of a complete run of the entities of the sequence
FullRun ==
    [k \in 1..(2 * Len(seq.entities)) |->
        IF k % 2 = 1 THEN <<"setup", seq.entities[(k + 1) \div 2]>>
        ELSE <<"teardown", seq.entities[k \div 2]>>]

\* C40: a set-up non-looping sequence of one entity or more, whose children
\* each come to request a transition and which keeps being updated,
\* eventually requests its own transition; when it does, every entity has
\* been set up once and torn down once, in index order.
C40_SequenceTerminates ==
    /\ seq.isSetup ~> Truthy(seq.rt)
    /\ [](Truthy(seq.rt) => log = FullRun)

\* a sequence of two entities has run to its end
C40_Witness ==
    /\ Truthy(seq.rt)
    /\ Len(seq.entities) = 2
    /\ hist.completions = 2
    /\ last.op = "seq.update"
    /\ log = <<<<"setup", 1>>, <<"teardown", 1>>, <<"setup", 2>>, <<"teardown", 2>>>>

\* the position after the current one, as _advance chooses it
NextIndex == IF seq.currentEntityIndex < Len(seq.entities) - 1
             THEN seq.currentEntityIndex + 1 ELSE 0

\* C19: a skip() on a set-up EntitySequence that has not finished returns
\* without error, also before the first update(): either the current child
\* is torn down and the next entity activated, or, at the last index of a
\* non-looping sequence, requestedTransition becomes the transition "skip".
C19_SkipAdvancesAtAnyPoint ==
    [][(/\ last'.op = "seq.skip"
        /\ seq.isSetup
        /\ seq.currentEntity # 0
        /\ ~Truthy(seq.rt))
       => /\ last'.err = NoError
          /\ ~ent'[seq.currentEntity].isSetup \/ seq'.currentEntity = seq.currentEntity
          /\ IF seq.currentEntityIndex < Len(seq.entities) - 1 \/ seq.loop
             THEN /\ seq'.currentEntityIndex = NextIndex
                  /\ seq'.currentEntity = seq.entities[NextIndex + 1]
                  /\ ent'[seq'.currentEntity].isSetup
                  /\ seq'.rt = seq.rt
             ELSE seq'.rt = Transition("skip", "undefined")]_vars

\* C20: once a non-looping EntitySequence has set its requestedTransition,
\* addEntity() and skip() return without doing anything: the entity list,
\* currentEntityIndex, the current child, requestedTransition, every
\* entity and the calls made on the children are unchanged.
C20_NoOpsOnceFinished ==
    [][(/\ last'.op \in {"seq.addEntity", "seq.skip"}
        /\ Truthy(seq.rt))
       => /\ last'.err = NoError
          /\ seq' = seq
          /\ ent' = ent
          /\ log' = log]_vars

\* a skip() on a sequence of two entities that had already finished with
\* the transition of its last child
C20_Witness ==
    /\ last.op = "seq.skip"
    /\ ~seq.loop
    /\ Len(seq.entities) = 2
    /\ seq.rt = Str("win")
    /\ hist.completions = 2
    /\ seq.currentEntityIndex = 1
    /\ ~ent[seq.currentEntity].isSetup

-----------------------------------------------------------------------------
(* StateMachine *)

\* the states of the machines built here, each an entity instance or a
\* factory returning it; "ghost" names no state
StateEntity == [start |-> 1, mid |-> 2, end |-> 3]

EmptyTable == [k \in {} |-> Null]

\* a transition-table entry: a state name, or makeTransitionTable(table), or
\* something that is neither a string nor a function
StringEntry(n) == [kind |-> "string", next |-> Str(n), table |-> EmptyTable]
TableEntry(t) == [kind |-> "function", next |-> Null, table |-> t]
OtherEntry == [kind |-> "other", next |-> Null, table |-> EmptyTable]

WinLose ==
    [win |-> Str("end"), lose |-> Str("start"),
     next |-> Transition("mid", "p2"), bad |-> Str("ghost")]

\* the transition tables the machines are constructed with
TransitionTables ==
    {[k \in {"start"} |-> TableEntry(WinLose)],
     [k \in {"start", "mid"} |-> IF k = "start" THEN StringEntry("mid") ELSE TableEntry(WinLose)],
     [k \in {"mid"} |-> OtherEntry]}

\* new StateMachine(states, transitions, options): endingStates defaults to
\* ["end"], startingStateParams to {}
NewStateMachine(states, transitions, startingState) ==
    [made |-> TRUE, isSetup |-> FALSE, rt |-> Undef, cfg |-> "undefined",
     states |-> states, transitions |-> transitions,
     startingState |-> startingState, endingStates |-> {"end"},
     startingStateParams |-> "{}",
     visitedStates |-> <<>>, state |-> 0, stateName |-> "undefined",
     stateParams |-> "undefined", sceneStartedAt |-> UndefinedNumber]

\* resolved: the next-state name the last call handed to _changeState;
\* events: the stateChange events the last call emitted, each with its four
\* arguments and whether the new state was set up by then; request and
\* descriptor: the requestedTransition and the nextStateDescriptor the last
\* update() unpacked; factoryParams: the params the last call passed to a
\* state factory
NoSmHist ==
    [resolved |-> "", events |-> <<>>, request |-> Undef, descriptor |-> Undef,
     factoryParams |-> "none"]

SmWorldOf(c) ==
    [ent |-> ent, listeners |-> listeners, emitter |-> emitter, logged |-> {}, hooks |-> {},
     log |-> <<>>, self |-> c, err |-> NoError, hist |-> NoSmHist]

\* the part of _changeState that enters a state of the states table
StateMachine_enterState(w, timeSinceStart, nextStateName, nextStateParams) ==
    LET d == w.self.states[nextStateName]
        w1 == IF d.factory
              THEN Record([w EXCEPT !.hist.factoryParams = nextStateParams],
                          "factory", d.entity)
              ELSE w
        w2 == Record(Entity_setup([w1 EXCEPT !.self.state = d.entity], d.entity,
                                  Entity_config(w1.self)), "setup", d.entity)
    IN [w2 EXCEPT !.self.sceneStartedAt = timeSinceStart,
                  !.self.stateName = nextStateName,
                  !.self.stateParams = nextStateParams,
                  !.self.visitedStates = Append(@, nextStateName),
                  !.hist.events = Append(@, <<nextStateName, nextStateParams,
                                              w.self.stateName, w.self.stateParams,
                                              w2.ent[d.entity].isSetup>>)]

\* a state change that leaves the previous state set up
StateMachine_teardownState_Skips(w) == w

StateMachine_teardownState(w) ==
    IF w.self.state # 0
    THEN Record(Entity_teardown(w, w.self.state), "teardown", w.self.state)
    ELSE w

\* a _changeState that looks the state up before it tests for an ending state
StateMachine_changeState_EndingLast(w, timeSinceStart, nextStateName, nextStateParams) ==
    LET w0 == [w EXCEPT !.hist.resolved = nextStateName]
        w1 == StateMachine_teardownState(w0)
    IN IF nextStateName \in DOMAIN w.self.states
       THEN LET w2 == StateMachine_enterState(w1, timeSinceStart, nextStateName, nextStateParams)
            IN IF nextStateName \in w.self.endingStates
               THEN [w2 EXCEPT !.self.rt = Str(nextStateName)]
               ELSE w2
       ELSE IF nextStateName \in w.self.endingStates
       THEN [w0 EXCEPT !.self.rt = Str(nextStateName),
                       !.self.visitedStates = Append(@, nextStateName)]
       ELSE Throw(w1, "Cannot find state")

\* a _changeState that ignores a name that is not in states
StateMachine_changeState_IgnoresUnknown(w, timeSinceStart, nextStateName, nextStateParams) ==
    LET w0 == [w EXCEPT !.hist.resolved = nextStateName] IN
    IF nextStateName \in w.self.endingStates
    THEN [w0 EXCEPT !.self.rt = Str(nextStateName),
                    !.self.visitedStates = Append(@, nextStateName)]
    ELSE LET w1 == StateMachine_teardownState(w0) IN
         IF nextStateName \in DOMAIN w.self.states
         THEN StateMachine_enterState(w1, timeSinceStart, nextStateName, nextStateParams)
         ELSE w1

\* StateMachine._changeState(timeSinceStart, nextStateName, nextStateParams)
StateMachine_changeState(w, timeSinceStart, nextStateName, nextStateParams) ==
    LET w0 == [w EXCEPT !.hist.resolved = nextStateName] IN
    IF nextStateName \in w.self.endingStates
    THEN [w0 EXCEPT !.self.rt = Str(nextStateName),
                    !.self.visitedStates = Append(@, nextStateName)]
    ELSE LET w1 == StateMachine_teardownState(w0) IN
         IF nextStateName \in DOMAIN w.self.states
         THEN StateMachine_enterState(w1, timeSinceStart, nextStateName, nextStateParams)
         ELSE Throw(w1, "Cannot find state")

\* StateMachine.setup(config)
StateMachine_setup(w, config) ==
    LET w1 == Self_setup(w, config)
    IN StateMachine_changeState([w1 EXCEPT !.self.visitedStates = <<>>], 0,
                                w1.self.startingState, w1.self.startingStateParams)

\* the name and the params unpacked from a requested transition; a
\* transition that is `true` has no string name
IsStringName(rt) == rt.shape \in {"string", "object"}
ParamsOf(rt) == IF rt.shape = "object" THEN rt.params ELSE "undefined"

\* an unpacking that always passes the params of the requested transition on
StateMachine_unpackAndChange_RequestParams(w, t, requestedTransition, nextStateDescriptor) ==
    LET w0 == [w EXCEPT !.hist.request = requestedTransition,
                        !.hist.descriptor = nextStateDescriptor] IN
    IF nextStateDescriptor.shape \in {"object", "string"}
    THEN StateMachine_changeState(w0, t, nextStateDescriptor.name, ParamsOf(requestedTransition))
    ELSE Throw(w0, "Cannot decode state descriptor")

\* the second half of StateMachine.update: unpack the next state descriptor
\* and change state
StateMachine_unpackAndChange(w, t, requestedTransition, nextStateDescriptor) ==
    LET w0 == [w EXCEPT !.hist.request = requestedTransition,
                        !.hist.descriptor = nextStateDescriptor] IN
    IF nextStateDescriptor.shape = "object"
    THEN StateMachine_changeState(w0, t, nextStateDescriptor.name, nextStateDescriptor.params)
    ELSE IF nextStateDescriptor.shape = "string"
    THEN StateMachine_changeState(w0, t, nextStateDescriptor.name, ParamsOf(requestedTransition))
    ELSE Throw(w0, "Cannot decode state descriptor")

\* an update() that takes a requested state name directly even when the
\* current state has an entry in the transition table
StateMachine_update_ShorthandFirst(w, t) ==
    LET w0 == Self_update(w) IN
    IF w0.self.state = 0 THEN w0
    ELSE LET w1 == Entity_update(w0, w0.self.state, Minus(t, w0.self.sceneStartedAt))
             requestedTransition == w1.ent[w0.self.state].rt
             hasEntry == w1.self.stateName \in DOMAIN w1.self.transitions
         IN IF ~Truthy(requestedTransition) THEN w1
            ELSE IF /\ IsStringName(requestedTransition)
                    /\ requestedTransition.name \in DOMAIN w1.self.states
                    /\ TRUE
            THEN StateMachine_unpackAndChange(w1, t, requestedTransition, requestedTransition)
            ELSE IF ~hasEntry THEN Throw(w1, "Cannot find transition for state")
            ELSE LET transitionDescriptor == w1.self.transitions[w1.self.stateName] IN
                 IF transitionDescriptor.kind = "function"
                 THEN IF /\ IsStringName(requestedTransition)
                         /\ requestedTransition.name \in DOMAIN transitionDescriptor.table
                      THEN StateMachine_unpackAndChange(w1, t, requestedTransition,
                               transitionDescriptor.table[requestedTransition.name])
                      ELSE Throw(w1, "makeTransitionTable: Cannot find state")
                 ELSE IF transitionDescriptor.kind = "string"
                 THEN StateMachine_unpackAndChange(w1, t, requestedTransition,
                                                   transitionDescriptor.next)
                 ELSE Throw(w1, "Cannot decode transition descriptor")

\* an update() that ignores a request the current state has no entry for
StateMachine_update_NoEntryIgnored(w, t) ==
    LET w0 == Self_update(w) IN
    IF w0.self.state = 0 THEN w0
    ELSE LET w1 == Entity_update(w0, w0.self.state, Minus(t, w0.self.sceneStartedAt))
             requestedTransition == w1.ent[w0.self.state].rt
             hasEntry == w1.self.stateName \in DOMAIN w1.self.transitions
         IN IF ~Truthy(requestedTransition) THEN w1
            ELSE IF /\ IsStringName(requestedTransition)
                    /\ requestedTransition.name \in DOMAIN w1.self.states
                    /\ ~hasEntry
            THEN StateMachine_unpackAndChange(w1, t, requestedTransition, requestedTransition)
            ELSE IF ~hasEntry THEN w1
            ELSE LET transitionDescriptor == w1.self.transitions[w1.self.stateName] IN
                 IF transitionDescriptor.kind = "function"
                 THEN IF /\ IsStringName(requestedTransition)
                         /\ requestedTransition.name \in DOMAIN transitionDescriptor.table
                      THEN StateMachine_unpackAndChange(w1, t, requestedTransition,
                               transitionDescriptor.table[requestedTransition.name])
                      ELSE Throw(w1, "makeTransitionTable: Cannot find state")
                 ELSE IF transitionDescriptor.kind = "string"
                 THEN StateMachine_unpackAndChange(w1, t, requestedTransition,
                                                   transitionDescriptor.next)
                 ELSE Throw(w1, "Cannot decode transition descriptor")

\* StateMachine.update(options); t is options.timeSinceStart
StateMachine_update(w, t) ==
    LET w0 == Self_update(w) IN
    IF w0.self.state = 0 THEN w0
    ELSE LET w1 == Entity_update(w0, w0.self.state, Minus(t, w0.self.sceneStartedAt))
             requestedTransition == w1.ent[w0.self.state].rt
             hasEntry == w1.self.stateName \in DOMAIN w1.self.transitions
         IN IF ~Truthy(requestedTransition) THEN w1
            ELSE IF /\ IsStringName(requestedTransition)
                    /\ requestedTransition.name \in DOMAIN w1.self.states
                    /\ ~hasEntry
            THEN StateMachine_unpackAndChange(w1, t, requestedTransition, requestedTransition)
            ELSE IF ~hasEntry THEN Throw(w1, "Cannot find transition for state")
            ELSE LET transitionDescriptor == w1.self.transitions[w1.self.stateName] IN
                 IF transitionDescriptor.kind = "function"
                 THEN IF /\ IsStringName(requestedTransition)
                         /\ requestedTransition.name \in DOMAIN transitionDescriptor.table
                      THEN StateMachine_unpackAndChange(w1, t, requestedTransition,
                               transitionDescriptor.table[requestedTransition.name])
                      ELSE Throw(w1, "makeTransitionTable: Cannot find state")
                 ELSE IF transitionDescriptor.kind = "string"
                 THEN StateMachine_unpackAndChange(w1, t, requestedTransition,
                                                   transitionDescriptor.next)
                 ELSE Throw(w1, "Cannot decode transition descriptor")

\* StateMachine.teardown()
StateMachine_teardown(w) ==
    Self_teardown(IF w.self.state # 0
                  THEN [StateMachine_teardownState(w)
                           EXCEPT !.self.state = 0, !.self.stateName = "null"]
                  ELSE w)

\* StateMachine.onSignal(signal, frameInfo, data)
StateMachine_onSignal(w, signal) ==
    LET w1 == Self_onSignal(w) IN
    IF w1.self.state # 0 THEN Entity_onSignal(w1, w1.self.state) ELSE w1

CommitSm(w) == Commit(w) /\ sm' = w.self /\ hist' = w.hist

\* the transitions the Block states are asked to request
SmRequests == {Str("win"), Str("lose"), Str("bad"), Str("mid"), Str("end"),
               Transition("next", "p1"), True}

InitSm ==
    /\ ent \in [{1, 2, 3} -> {NewEntity("Block", Null), NewEntity("Transitory", Str("lose"))}]
    /\ ent[2].kind = "Block" /\ ent[3].kind = "Block"
    /\ InitWorld
    /\ \E tt \in TransitionTables, st \in {"start", "end", "ghost"}, f \in BOOLEAN :
          sm = NewStateMachine(
                   [n \in {"start", "mid", "end"} |-> [entity |-> StateEntity[n], factory |-> f]],
                   tt, st)
    /\ hist = NoSmHist
    /\ par = NoPar /\ seq = NoSeq /\ alt = NoAlt /\ sw = NoSw /\ dc = NoDc

SmSetup(config) ==
    /\ ~sm.isSetup
    /\ LET w == StateMachine_setup(SmWorldOf(sm), config)
       IN CommitSm(w) /\ Call("sm.setup", 0, w.err)
    /\ UNCHANGED <<par, seq, alt, sw, dc>>

\* visitedStates is kept within its bound
SmUpdate(t) ==
    /\ sm.isSetup
    /\ Len(sm.visitedStates) < MaxVisited
    /\ LET w == StateMachine_update(SmWorldOf(sm), t)
       IN CommitSm(w) /\ Call("sm.update", 0, w.err)
    /\ UNCHANGED <<par, seq, alt, sw, dc>>

SmTeardown ==
    /\ sm.isSetup
    /\ LET w == StateMachine_teardown(SmWorldOf(sm))
       IN CommitSm(w) /\ Call("sm.teardown", 0, w.err)
    /\ UNCHANGED <<par, seq, alt, sw, dc>>

SmOnSignal(signal) ==
    /\ sm.isSetup
    /\ LET w == StateMachine_onSignal(SmWorldOf(sm), signal)
       IN CommitSm(w) /\ Call(SignalOp("sm", signal), 0, w.err)
    /\ UNCHANGED <<par, seq, alt, sw, dc>>

NextSm ==
    \/ SmSetup("cfgA")
    \/ \E t \in 0..MaxTime : SmUpdate(t)
    \/ SmTeardown
    \/ \E sig \in {"reset", "pause"} : SmOnSignal(sig)
    \/ \E i \in {1, 2, 3}, tr \in SmRequests : ChildDone(i, tr)

SpecSm == InitSm /\ [][NextSm]_vars

-----------------------------------------------------------------------------
(* Claims about StateMachine *)

\* the child calls of the last call that concern entity e
CallsOn(e) == {k \in 1..Len(log) : log[k][2] = e}

\* C9: when a setup() or an update() resolves a next state whose name is in
\* endingStates, the machine's requestedTransition is that name, and the
\* state's factory is not invoked and no entity registered under that name
\* is set up.
C9_EndingStateNotEntered ==
    /\ (last.op \in {"sm.setup", "sm.update"} /\ hist.resolved \in sm.endingStates) =>
          /\ sm.rt = Str(hist.resolved)
          /\ last.err = NoError
          /\ hist.resolved \in DOMAIN sm.states =>
                CallsOn(sm.states[hist.resolved].entity) = {}
    /\ \A n \in sm.endingStates \cap DOMAIN sm.states :
          ~ent[sm.states[n].entity].isSetup

\* an update() in which the start state, reached through the table, asked
\* for "win": the machine requests "end", whose state is a factory
C9_Witness ==
    /\ last.op = "sm.update"
    /\ hist.resolved = "end"
    /\ sm.rt = Str("end")
    /\ sm.states["end"].factory
    /\ sm.stateName = "start"
    /\ ent[1].rt = Str("win")

\* C10: when a setup() or an update() resolves a next-state name that is
\* neither an ending state nor a key of states, the call throws the error of
\* _changeState and no new state is entered: state and stateName are as
\* before, nothing is set up and no stateChange is emitted.
C10_UnknownStateIsFatal ==
    [][(/\ last'.op \in {"sm.setup", "sm.update"}
        /\ hist'.resolved # ""
        /\ hist'.resolved \notin sm.endingStates \cup DOMAIN sm.states)
       => /\ last'.err = "Cannot find state"
          /\ sm'.state = sm.state
          /\ sm'.stateName = sm.stateName
          /\ \A k \in 1..Len(log') : log'[k][1] = "teardown"
          /\ hist'.events = <<>>]_vars

\* an update() whose table entry names "ghost", which is no state
C10_Witness ==
    /\ last.op = "sm.update"
    /\ last.err = "Cannot find state"
    /\ hist.resolved = "ghost"
    /\ sm.stateName = "start"
    /\ sm.state = 1

\* the machine of the example: the only table entry is start's, a
\* makeTransitionTable that maps "win" to "end" and "lose" to "start"
StartTableOnly ==
    /\ DOMAIN sm.transitions = {"start"}
    /\ sm.transitions["start"].kind = "function"
    /\ sm.startingState = "start"

\* the child calls of a change of state from entity a to entity b
Reenter(a, b, factory) ==
    IF factory THEN <<<<"teardown", a>>, <<"factory", b>>, <<"setup", b>>>>
    ELSE <<<<"teardown", a>>, <<"setup", b>>>>

\* C11: in the machine with start: {win: "end", lose: "start"}, an update()
\* in which the start state requests "lose" tears the start state down and
\* sets it up again, leaves the machine in "start" and leaves the machine's
\* requestedTransition as it was (null until a "win"), however many times
\* it happens; an update() in which it requests "win" sets the machine's
\* requestedTransition to "end" and makes no call on the "end" entity,
\* which is never set up.
C11_LoseLoopsWinEnds ==
    /\ [](StartTableOnly => ~ent[StateEntity["end"]].isSetup)
    /\ [][(/\ last'.op = "sm.update"
           /\ StartTableOnly
           /\ sm.stateName = "start")
          => /\ ent[1].rt = Str("lose") =>
                   /\ last'.err = NoError
                   /\ log' = Reenter(1, 1, sm.states["start"].factory)
                   /\ ent'[1].isSetup
                   /\ sm'.state = 1 /\ sm'.stateName = "start"
                   /\ sm'.visitedStates = Append(sm.visitedStates, "start")
                   /\ sm'.rt = sm.rt
                   /\ (\A k \in 1..Len(sm.visitedStates) : sm.visitedStates[k] = "start")
                        => sm'.rt = Null
             /\ ent[1].rt = Str("win") =>
                   /\ last'.err = NoError
                   /\ sm'.rt = Str("end")
                   /\ log' = <<>>
                   /\ ~ent'[StateEntity["end"]].isSetup]_vars

\* the start state asked for "lose" and, set up again, for "win"
C11_Witness ==
    /\ StartTableOnly
    /\ last.op = "sm.update"
    /\ sm.visitedStates = <<"start", "start", "end">>
    /\ sm.rt = Str("end")
    /\ sm.stateName = "start"
    /\ ent[1].isSetup

\* the requested transition of the live state names a state of the machine
RequestsStateName ==
    /\ sm.state # 0
    /\ Truthy(ent[sm.state].rt)
    /\ IsStringName(ent[sm.state].rt)
    /\ ent[sm.state].rt.name \in DOMAIN sm.states

\* C15: in an update() in which the live state requests a transition whose
\* name is a key of states: when the current state has no entry in the
\* transition table, that name is the next state (entered with the params
\* of the request, or requested by the machine when it is an ending
\* state); when the current state has an entry, the entry alone decides: a
\* string entry is the next state, a makeTransitionTable entry gives the
\* next state it maps the name to and throws when it does not map it, and
\* any other entry throws.
C15_ShorthandOnlyWithoutEntry ==
    [][(last'.op = "sm.update" /\ RequestsStateName)
       => LET rt == ent[sm.state].rt
              name == rt.name
          IN IF sm.stateName \notin DOMAIN sm.transitions
             THEN /\ last'.err = NoError
                  /\ hist'.resolved = name
                  /\ IF name \in sm.endingStates
                     THEN sm'.rt = Str(name) /\ sm'.stateName = sm.stateName
                     ELSE /\ sm'.stateName = name
                          /\ sm'.state = sm.states[name].entity
                          /\ ent'[sm'.state].isSetup
                          /\ sm'.stateParams = ParamsOf(rt)
             ELSE LET entry == sm.transitions[sm.stateName] IN
                  CASE entry.kind = "string" ->
                          hist'.resolved = entry.next.name
                    [] entry.kind = "function" ->
                          IF name \in DOMAIN entry.table
                          THEN hist'.resolved = entry.table[name].name
                          ELSE /\ last'.err = "makeTransitionTable: Cannot find state"
                               /\ hist'.resolved = ""
                               /\ sm' = sm
                    [] OTHER ->
                          /\ last'.err = "Cannot decode transition descriptor"
                          /\ hist'.resolved = ""
                          /\ sm' = sm]_vars

\* in "mid", which has a makeTransitionTable entry that does not map
\* "mid", the live state asked for "mid": update() has thrown and the
\* machine has not re-entered "mid"
C15_Witness ==
    /\ last.op = "sm.update"
    /\ sm.stateName = "mid"
    /\ "mid" \in DOMAIN sm.transitions
    /\ ent[sm.state].rt = Str("mid")
    /\ last.err = "makeTransitionTable: Cannot find state"
    /\ sm.visitedStates = <<"start", "mid">>

\* C16: in an update() in which the live state requests a transition, the
\* current state has no entry in the transition table and the request does
\* not name a state, update() throws "Cannot find transition for state";
\* the current state is not torn down and no field of the machine changes.
C16_NoEntryIsFatal ==
    [][(/\ last'.op = "sm.update"
        /\ sm.state # 0
        /\ Truthy(ent[sm.state].rt)
        /\ sm.stateName \notin DOMAIN sm.transitions
        /\ ~RequestsStateName)
       => /\ last'.err = "Cannot find transition for state"
          /\ log' = <<>>
          /\ ent' = ent
          /\ sm' = sm
          /\ hist'.resolved = "" /\ hist'.events = <<>>]_vars

\* the start state, which has no entry, asked for "win", which is no state
C16_Witness ==
    /\ last.op = "sm.update"
    /\ last.err = "Cannot find transition for state"
    /\ sm.stateName = "start"
    /\ "start" \notin DOMAIN sm.transitions
    /\ ent[1].isSetup
    /\ ent[1].rt = Str("win")

\* C17: an onSignal("reset") on a set-up StateMachine with a live state
\* tears the live state down and enters the starting state again with the
\* starting params.
C17_ResetRestartsMachine ==
    [][(/\ last'.op = SignalOp("sm", "reset")
        /\ sm.isSetup
        /\ sm.state # 0)
       => /\ last'.err = NoError
          /\ sm'.stateName = sm.startingState
          /\ sm'.stateParams = sm.startingStateParams
          /\ log' = Reenter(sm.state, sm.states[sm.startingState].entity,
                            sm.states[sm.startingState].factory)]_vars

\* C29: when an update() enters a state, the params of the new state are
\* the params of the requested transition if the resolved next-state
\* descriptor is a bare string, and the params of the descriptor if it is a
\* {name, params} object; they are recorded as stateParams and are what the
\* state's factory was called with.
C29_ParamsOfNewState ==
    (last.op = "sm.update" /\ last.err = NoError /\ hist.events # <<>>) =>
        LET nextStateParams == IF hist.descriptor.shape = "string"
                               THEN ParamsOf(hist.request)
                               ELSE hist.descriptor.params
        IN /\ hist.descriptor.shape \in {"string", "object"}
           /\ sm.stateParams = nextStateParams
           /\ hist.factoryParams =
                 IF sm.states[sm.stateName].factory THEN nextStateParams ELSE "none"

\* the start state asked for {name: "next", params: "p1"} and its table entry
\* is the bare string "mid": the factory of mid was called with "p1"
C29_Witness ==
    /\ last.op = "sm.update"
    /\ last.err = NoError
    /\ hist.request = Transition("next", "p1")
    /\ hist.descriptor = Str("mid")
    /\ sm.stateName = "mid"
    /\ sm.stateParams = "p1"
    /\ hist.factoryParams = "p1"

\* what a stateChange event carries as the previous state: the name and the
\* params of the machine's state before the change, nothing if it had none
CarriesPrevious(e) ==
    IF sm.state # 0
    THEN e[3] = sm.stateName /\ e[4] = sm.stateParams
    ELSE e[3] \in {"undefined", "null"} /\ e[4] \in {"undefined", "null"}

\* C30: a setup() or an update() that enters a non-ending state emits
\* exactly one stateChange event, after the setup of the new state, with the
\* name and the params of the new state and the name and the params of the
\* state that was live before the change.
C30_OneEventPerEntry ==
    [][(/\ last'.op \in {"sm.setup", "sm.update"}
        /\ last'.err = NoError
        /\ hist'.resolved \in DOMAIN sm.states \ sm.endingStates)
       => /\ Len(hist'.events) = 1
          /\ log'[Len(log')] = <<"setup", sm'.state>>
          /\ hist'.events[1][5]
          /\ hist'.events[1][1] = sm'.stateName
          /\ hist'.events[1][2] = sm'.stateParams
          /\ hist'.events[1][1] = hist'.resolved
          /\ CarriesPrevious(hist'.events[1])]_vars

\* the child calls of the last call that are a setup
SetUpBy == {k \in 1..Len(log') : log'[k][1] = "setup"}

\* C31: every state set up by a StateMachine and every child set up by an
\* EntitySequence is given, as the argument of its setup(), the config the
\* composite received in its own setup().
C31_ChildGetsOwnersConfig ==
    [][/\ last'.op \in {"sm.setup", "sm.update"} =>
             \A k \in SetUpBy : ent'[log'[k][2]].cfg = sm'.cfg
       /\ last'.op \in {"seq.setup", "seq.update", "seq.skip", SignalOp("seq", "reset")} =>
             \A k \in SetUpBy : ent'[log'[k][2]].cfg = seq'.cfg]_vars

\* C36: an update() of a StateMachine that has reached an ending state
\* changes nothing: requestedTransition keeps the name of the ending state,
\* visitedStates does not grow, no stateChange is emitted and no next state
\* is resolved from the transition table.
C36_NothingAfterEnding ==
    [][(/\ last'.op = "sm.update"
        /\ sm.rt.shape = "string"
        /\ sm.rt.name \in sm.endingStates)
       => /\ last'.err = NoError
          /\ sm'.rt = sm.rt
          /\ sm'.visitedStates = sm.visitedStates
          /\ hist'.events = <<>>
          /\ hist'.resolved = ""]_vars

\* C37: an update() of a StateMachine that fails because the next-state name
\* is not in states leaves the machine as it was: the current state is
\* still set up, and state, stateName, stateParams and visitedStates are
\* unchanged.
C37_FailedChangeKeepsState ==
    [][(/\ last'.op = "sm.update"
        /\ last'.err = "Cannot find state"
        /\ ent[sm.state].isSetup)
       => /\ sm'.state = sm.state
          /\ ent'[sm.state].isSetup
          /\ sm'.stateName = sm.stateName
          /\ sm'.stateParams = sm.stateParams
          /\ sm'.visitedStates = sm.visitedStates]_vars

\* the state entities that are set up
LiveStates == {i \in DOMAIN ent : ent[i].isSetup}

\* C39: at most one state entity of a StateMachine is set up, and it is the
\* one recorded as the current state; an update() that enters a state has
\* torn the previous state down before it sets the next one up, also when
\* the state is re-entered from itself.
C39_OneLiveState ==
    /\ [](/\ Cardinality(LiveStates) <= 1
          /\ \A i \in LiveStates : sm.state = i)
    /\ [][(last'.op = "sm.update" /\ hist'.events # <<>>)
          => /\ log' = Reenter(sm.state, sm'.state, sm.states[sm'.stateName].factory)
             /\ LiveStates' = {sm'.state}]_vars

\* an update() took the machine from start to mid, and an update() made mid
\* re-enter itself
C39_Witness ==
    /\ last.op = "sm.update"
    /\ last.err = NoError
    /\ sm.visitedStates = <<"start", "mid", "mid">>
    /\ sm.state = StateEntity["mid"]
    /\ LiveStates = {StateEntity["mid"]}
    /\ log = Reenter(StateEntity["mid"], StateEntity["mid"], sm.states["mid"].factory)

-----------------------------------------------------------------------------
(* Alternative *)

\* key.toString() for the 0-based key of the pair at position k
KeyString(k) == <<"0", "1", "2", "3", "4", "5", "6", "7", "8", "9">>[k]

\* new Alternative(entityPairs): a pair without a transition gets the
\* string of its index as its transition
NewAlternative(entityPairs) ==
    [made |-> TRUE, isSetup |-> FALSE, rt |-> Undef, cfg |-> "undefined",
     entityPairs |-> [k \in 1..Len(entityPairs) |->
                         [entity |-> entityPairs[k].entity,
                          transition |-> IF entityPairs[k].transition = Undef
                                         THEN Str(KeyString(k))
                                         ELSE entityPairs[k].transition]]]

AltWorldOf(c) == [WorldOf(c) EXCEPT !.log = <<>>]

\* the loop of Alternative._setup from pair k on
RECURSIVE Alternative_setupFrom(_, _)
Alternative_setupFrom(w, k) ==
    IF k > Len(w.self.entityPairs) THEN w
    ELSE LET entityPair == w.self.entityPairs[k]
             w1 == Record(Entity_setup(w, entityPair.entity, Entity_config(w.self)),
                          "setup", entityPair.entity)
         IN Alternative_setupFrom(
                IF Truthy(w1.ent[entityPair.entity].rt)
                THEN [w1 EXCEPT !.self.rt = entityPair.transition] ELSE w1,
                k + 1)

\* Entity.setup with the _setup hook of Alternative
Alternative_setup(w, config) == Alternative_setupFrom(Self_setup(w, config), 1)

\* the loop of Alternative._update from pair k on
RECURSIVE Alternative_updateFrom(_, _, _)
Alternative_updateFrom(w, k, t) ==
    IF k > Len(w.self.entityPairs) THEN w
    ELSE LET entityPair == w.self.entityPairs[k]
             w1 == Entity_update(w, entityPair.entity, t)
         IN Alternative_updateFrom(
                IF Truthy(w1.ent[entityPair.entity].rt)
                THEN [w1 EXCEPT !.self.rt = entityPair.transition] ELSE w1,
                k + 1, t)

\* Entity.update with the _update hook of Alternative
Alternative_update(w, t) == Alternative_updateFrom(Self_update(w), 1, t)

\* the loop of Alternative._teardown from pair k on
RECURSIVE Alternative_teardownFrom(_, _)
Alternative_teardownFrom(w, k) ==
    IF k > Len(w.self.entityPairs) THEN w
    ELSE Alternative_teardownFrom(
             Record(Entity_teardown(w, w.self.entityPairs[k].entity),
                    "teardown", w.self.entityPairs[k].entity),
             k + 1)

\* Entity.teardown with the _teardown hook of Alternative: the message is
\* logged before the hook, the fields are cleared after it
Alternative_teardown(w) ==
    LET w1 == Logged(w, ~w.self.isSetup, "teardown() called before setup()")
        w2 == Alternative_teardownFrom(w1, 1)
    IN [w2 EXCEPT !.self.cfg = "null", !.self.isSetup = FALSE]

CommitAlt(w) == Commit(w) /\ alt' = w.self

AltChildKinds == {"Block", "Transitory", "WaitingEntity"}

\* the tags the pairs are given: "x", "y", ... or none
Tags == <<"x", "y", "z", "u", "v">>

InitAlt ==
    /\ ent \in [EntityIds -> {NewEntity(k, DefaultTransition) : k \in AltChildKinds}]
    /\ InitWorld
    /\ \E tagged \in BOOLEAN :
          alt = NewAlternative([k \in EntityIds |->
                                  [entity |-> k,
                                   transition |-> IF tagged THEN Str(Tags[k]) ELSE Undef]])
    /\ par = NoPar /\ seq = NoSeq /\ sm = NoSm /\ sw = NoSw /\ dc = NoDc /\ hist = NoHist

AltSetup(config) ==
    /\ ~alt.isSetup
    /\ LET w == Alternative_setup(AltWorldOf(alt), config)
       IN CommitAlt(w) /\ Call("alt.setup", 0, w.err)
    /\ UNCHANGED <<par, seq, sm, sw, dc, hist>>

AltUpdate(t) ==
    /\ alt.isSetup
    /\ LET w == Alternative_update(AltWorldOf(alt), t)
       IN CommitAlt(w) /\ Call("alt.update", 0, w.err)
    /\ UNCHANGED <<par, seq, sm, sw, dc, hist>>

AltTeardown ==
    /\ alt.isSetup
    /\ LET w == Alternative_teardown(AltWorldOf(alt))
       IN CommitAlt(w) /\ Call("alt.teardown", 0, w.err)
    /\ UNCHANGED <<par, seq, sm, sw, dc, hist>>

NextAlt ==
    \/ \E c \in Configs : AltSetup(c)
    \/ \E t \in 0..MaxTime : AltUpdate(t)
    \/ AltTeardown
    \/ \E i \in EntityIds, tr \in {True, Str("go")} : ChildDone(i, tr)

SpecAlt == InitAlt /\ [][NextAlt]_vars

-----------------------------------------------------------------------------
(* Claims about Alternative *)

\* the positions of the pairs whose child has a requested transition
Requesting == {k \in 1..Len(alt.entityPairs) : Truthy(ent[alt.entityPairs[k].entity].rt)}

\* C13: after a setup() or an update() at whose end two or more children
\* have a requested transition, the Alternative's requestedTransition is the
\* tag of the requesting child with the lowest index.
C13_EarliestIndexWins ==
    (/\ last.op \in {"alt.setup", "alt.update"}
     /\ Cardinality(Requesting) >= 2)
    => \E k \in Requesting :
          /\ \A j \in Requesting : k <= j
          /\ alt.rt = alt.entityPairs[k].transition

-----------------------------------------------------------------------------
(* SwitchingEntity *)

\* new SwitchingEntity(); activeEntityIndex is 0-based, - 1 for none
NewSwitchingEntity ==
    [made |-> TRUE, isSetup |-> FALSE, rt |-> Undef, cfg |-> "undefined",
     entities |-> <<>>, entityConfigs |-> <<>>, activeEntityIndex |-> 0 - 1]

SwWorldOf(c) == [WorldOf(c) EXCEPT !.log = <<>>]

\* this.entities[index] is an entity
HasEntityAt(c, index) == index >= 0 /\ index < Len(c.entities)

\* the first half of switchToIndex: tear down the active entity
SwitchingEntity_teardownActive(w) ==
    IF w.self.activeEntityIndex < 0 THEN w
    ELSE IF ~HasEntityAt(w.self, w.self.activeEntityIndex) THEN Throw(w, "TypeError")
    ELSE LET e == w.self.entities[w.self.activeEntityIndex + 1]
         IN Record(Entity_teardown(w, e), "teardown", e)

\* SwitchingEntity.switchToIndex(index)
SwitchingEntity_switchToIndex(w, index) ==
    LET w1 == SwitchingEntity_teardownActive(w) IN
    IF w1.err # NoError THEN w1
    ELSE LET w2 == [w1 EXCEPT !.self.activeEntityIndex = index] IN
         IF index < 0 THEN w2
         ELSE IF ~HasEntityAt(w2.self, index) THEN Throw(w2, "TypeError")
         ELSE LET e == w2.self.entities[index + 1]
              IN Record(Entity_setup(w2, e, processEntityConfig(Entity_config(w2.self),
                                                                 w2.self.entityConfigs[index + 1])),
                        "setup", e)

\* SwitchingEntity.setup(config)
SwitchingEntity_setup(w, config) ==
    LET w1 == Self_setup(w, config) IN
    IF w1.self.activeEntityIndex > 0
    THEN SwitchingEntity_switchToIndex(w1, w1.self.activeEntityIndex)
    ELSE w1

\* SwitchingEntity.teardown()
SwitchingEntity_teardown(w) ==
    LET w1 == SwitchingEntity_switchToIndex(w, 0 - 1) IN
    IF w1.err # NoError THEN w1 ELSE Self_teardown(w1)

\* SwitchingEntity.addEntity(entity, config)
SwitchingEntity_addEntity(w, entity, config) ==
    [w EXCEPT !.self.entities = Append(@, entity),
              !.self.entityConfigs = Append(@, config)]

\* SwitchingEntity.switchToEntity(entity); entity 0 is null
SwitchingEntity_switchToEntity(w, entity) ==
    IF entity = 0 THEN SwitchingEntity_switchToIndex(w, 0 - 1)
    ELSE LET index == IndexOf(w.self.entities, entity) - 1 IN
         IF index = 0 - 1 THEN Throw(w, "Cannot find entity")
         ELSE SwitchingEntity_switchToIndex(w, index)

\* SwitchingEntity.removeEntity(entity)
SwitchingEntity_removeEntity(w, entity) ==
    LET index == IndexOf(w.self.entities, entity) - 1 IN
    IF index = 0 - 1 THEN Throw(w, "Cannot find entity")
    ELSE LET w1 == IF index = w.self.activeEntityIndex
                   THEN SwitchingEntity_switchToIndex(w, 0 - 1) ELSE w
         IN IF w1.err # NoError THEN w1
            ELSE [w1 EXCEPT !.self.entities = Splice(@, index + 1),
                            !.self.entityConfigs = Splice(@, index + 1)]

\* SwitchingEntity.removeAllEntities()
SwitchingEntity_removeAllEntities(w) ==
    LET w1 == SwitchingEntity_switchToIndex(w, 0 - 1) IN
    IF w1.err # NoError THEN w1
    ELSE [w1 EXCEPT !.self.entities = <<>>, !.self.entityConfigs = <<>>,
                    !.self.activeEntityIndex = 0 - 1]

CommitSw(w) == Commit(w) /\ sw' = w.self

\* requested: switchToIndex or switchToEntity has been called on the entity;
\* chosen: the active index before the teardown() that was the last call
\* (- 1 after any other call)
NoSwHist == [requested |-> FALSE, chosen |-> 0 - 1]

\* the history after a call that is neither a switch nor a teardown
SwOther == hist' = [hist EXCEPT !.chosen = 0 - 1]

\* the history after a call of switchToIndex or switchToEntity
SwRequested == hist' = [requested |-> TRUE, chosen |-> 0 - 1]

InitSw ==
    /\ ent \in [EntityIds -> {NewEntity("Entity", Null)}]
    /\ InitWorld
    /\ sw = NewSwitchingEntity
    /\ par = NoPar /\ seq = NoSeq /\ sm = NoSm /\ alt = NoAlt /\ dc = NoDc /\ hist = NoSwHist

SwSetup(config) ==
    /\ ~sw.isSetup
    /\ LET w == SwitchingEntity_setup(SwWorldOf(sw), config)
       IN CommitSw(w) /\ Call("sw.setup", 0, w.err)
    /\ UNCHANGED <<par, seq, sm, alt, dc>>
    /\ SwOther

SwTeardown ==
    /\ sw.isSetup
    /\ LET w == SwitchingEntity_teardown(SwWorldOf(sw))
       IN CommitSw(w) /\ Call("sw.teardown", 0, w.err)
    /\ UNCHANGED <<par, seq, sm, alt, dc>>
    /\ hist' = [hist EXCEPT !.chosen = sw.activeEntityIndex]

\* the config an entity is added with: an override for the first entity,
\* none for the others
SwConfigFor(d) == IF d = 1 THEN "cfgB" ELSE "undefined"

\* the entity added is one that is not in the list
SwAddEntity(d, config) ==
    /\ IndexOf(sw.entities, d) = 0
    /\ LET w == SwitchingEntity_addEntity(SwWorldOf(sw), d, config)
       IN CommitSw(w) /\ Call("sw.addEntity", d, w.err)
    /\ UNCHANGED <<par, seq, sm, alt, dc>>
    /\ SwOther

SwSwitchToIndex(index) ==
    /\ LET w == SwitchingEntity_switchToIndex(SwWorldOf(sw), index)
       IN CommitSw(w) /\ Call("sw.switchToIndex", index, w.err)
    /\ UNCHANGED <<par, seq, sm, alt, dc>>
    /\ SwRequested

SwSwitchToEntity(d) ==
    /\ LET w == SwitchingEntity_switchToEntity(SwWorldOf(sw), d)
       IN CommitSw(w) /\ Call("sw.switchToEntity", d, w.err)
    /\ UNCHANGED <<par, seq, sm, alt, dc>>
    /\ SwRequested

SwRemoveEntity(d) ==
    /\ LET w == SwitchingEntity_removeEntity(SwWorldOf(sw), d)
       IN CommitSw(w) /\ Call("sw.removeEntity", d, w.err)
    /\ UNCHANGED <<par, seq, sm, alt, dc>>
    /\ SwOther

SwRemoveAllEntities ==
    /\ LET w == SwitchingEntity_removeAllEntities(SwWorldOf(sw))
       IN CommitSw(w) /\ Call("sw.removeAllEntities", 0, w.err)
    /\ UNCHANGED <<par, seq, sm, alt, dc>>
    /\ SwOther

NextSw ==
    \/ SwSetup("cfgA")
    \/ SwTeardown
    \/ \E d \in EntityIds : SwAddEntity(d, SwConfigFor(d))
    \/ \E index \in (0 - 1)..(NumEntities - 1) : SwSwitchToIndex(index)
    \/ \E d \in {0} \cup EntityIds : SwSwitchToEntity(d)
    \/ \E d \in EntityIds : SwRemoveEntity(d)
    \/ SwRemoveAllEntities

SpecSw == InitSw /\ [][NextSw]_vars

-----------------------------------------------------------------------------
(* Claims about SwitchingEntity *)

\* the positions of the list whose entity is set up
SetUpCandidates == {k \in 1..Len(sw.entities) : ent[sw.entities[k]].isSetup}

\* C21: at most one entity of the list of a SwitchingEntity is set up, and
\* a switch that sets an entity up has torn the previously active entity
\* down first.
C21_AtMostOneSetUp ==
    /\ Cardinality(SetUpCandidates) <= 1
    /\ (last.op \in {"sw.switchToIndex", "sw.switchToEntity"} /\ Len(log) = 2)
          => log[1][1] = "teardown" /\ log[2][1] = "setup"

\* C32: a setup() of a SwitchingEntity that has at least one entity and on
\* which no switch was ever requested makes the first entity the active one
\* and sets it up; and a setup() that follows a teardown() makes the index
\* that was active before the teardown the active one again, index 0 like
\* any other.
C32_FirstEntityByDefault ==
    [][(last'.op = "sw.setup" /\ last'.err = NoError) =>
          /\ (Len(sw.entities) >= 1 /\ ~hist.requested) =>
                /\ sw'.activeEntityIndex = 0
                /\ ent'[sw'.entities[1]].isSetup
          /\ (last.op = "sw.teardown" /\ last.err = NoError /\ hist.chosen >= 0) =>
                /\ sw'.activeEntityIndex = hist.chosen
                /\ ent'[sw'.entities[hist.chosen + 1]].isSetup]_vars

\* the entity that activeEntityIndex designates in c, 0 if none
ActiveEntityOf(c) ==
    IF HasEntityAt(c, c.activeEntityIndex) THEN c.entities[c.activeEntityIndex + 1] ELSE 0

\* activeEntityIndex of c is - 1 or the index of an entity of the list that is
\* set up in e
ActiveIsSetUp(c, e) ==
    \/ c.activeEntityIndex = 0 - 1
    \/ HasEntityAt(c, c.activeEntityIndex) /\ e[ActiveEntityOf(c)].isSetup

\* C38: a call of addEntity, switchToIndex, switchToEntity, removeEntity or
\* removeAllEntities that returns leaves activeEntityIndex at - 1 or at the
\* index of a set-up entity of the list; the index designates the entity
\* last switched to until that entity is removed, also when an entity at a
\* lower index is removed.
C38_ActiveIndexFollowsEntity ==
    [][(/\ last'.err = NoError
        /\ ActiveIsSetUp(sw, ent))
       => /\ last'.op \in {"sw.addEntity", "sw.switchToIndex", "sw.switchToEntity",
                           "sw.removeEntity", "sw.removeAllEntities"}
             => ActiveIsSetUp(sw', ent')
          /\ last'.op = "sw.addEntity" => ActiveEntityOf(sw') = ActiveEntityOf(sw)
          /\ last'.op = "sw.switchToEntity" => ActiveEntityOf(sw') = last'.target
          /\ (last'.op = "sw.switchToIndex" /\ last'.target >= 0)
             => ActiveEntityOf(sw') = sw.entities[last'.target + 1]
          /\ last'.op = "sw.removeEntity" =>
                ActiveEntityOf(sw') =
                    IF last'.target = ActiveEntityOf(sw) THEN 0 ELSE ActiveEntityOf(sw)
          /\ last'.op = "sw.removeAllEntities" => ActiveEntityOf(sw') = 0]_vars

-----------------------------------------------------------------------------
(* DeflatingCompositeEntity *)

\* new DeflatingCompositeEntity(options); autoTransition defaults to true
NewDeflatingCompositeEntity(autoTransition) ==
    [made |-> TRUE, isSetup |-> FALSE, rt |-> Undef, cfg |-> "undefined",
     entities |-> <<>>, autoTransition |-> autoTransition]

DcWorldOf(c) == [WorldOf(c) EXCEPT !.log = <<>>]

\* the loop of DeflatingCompositeEntity.setup from position k on
RECURSIVE DeflatingCompositeEntity_setupFrom(_, _, _)
DeflatingCompositeEntity_setupFrom(w, k, config) ==
    IF k > Len(w.self.entities) THEN w
    ELSE LET e == w.self.entities[k] IN
         DeflatingCompositeEntity_setupFrom(
             IF ~w.ent[e].isSetup THEN Record(Entity_setup(w, e, config), "setup", e) ELSE w,
             k + 1, config)

\* DeflatingCompositeEntity.setup(config)
DeflatingCompositeEntity_setup(w, config) ==
    DeflatingCompositeEntity_setupFrom(Self_setup(w, config), 1, config)

\* an update loop that keeps the children that completed in the list
RECURSIVE DeflatingCompositeEntity_updateFrom_KeepsCompleted(_, _, _)
DeflatingCompositeEntity_updateFrom_KeepsCompleted(w, i, t) ==
    IF i > Len(w.self.entities) THEN w
    ELSE LET e == w.self.entities[i]
             w1 == Record(Entity_update(w, e, t), "update", e)
         IN IF Truthy(w1.ent[e].rt)
            THEN DeflatingCompositeEntity_updateFrom_KeepsCompleted(
                     IF w1.ent[e].isSetup
                     THEN Record(Entity_teardown(w1, e), "teardown", e) ELSE w1,
                     i + 1, t)
            ELSE DeflatingCompositeEntity_updateFrom_KeepsCompleted(w1, i + 1, t)

\* the loop of DeflatingCompositeEntity.update from position i on
RECURSIVE DeflatingCompositeEntity_updateFrom(_, _, _)
DeflatingCompositeEntity_updateFrom(w, i, t) ==
    IF i > Len(w.self.entities) THEN w
    ELSE LET e == w.self.entities[i]
             w1 == Record(Entity_update(w, e, t), "update", e)
         IN IF Truthy(w1.ent[e].rt)
            THEN LET w2 == IF w1.ent[e].isSetup
                           THEN Record(Entity_teardown(w1, e), "teardown", e) ELSE w1
                 IN DeflatingCompositeEntity_updateFrom(
                        [w2 EXCEPT !.self.entities = Splice(@, i)], i, t)
            ELSE DeflatingCompositeEntity_updateFrom(w1, i + 1, t)

\* DeflatingCompositeEntity.update(options)
DeflatingCompositeEntity_update(w, t) ==
    LET w1 == DeflatingCompositeEntity_updateFrom(Self_update(w), 1, t) IN
    IF w1.self.autoTransition /\ Len(w1.self.entities) = 0
    THEN [w1 EXCEPT !.self.rt = True] ELSE w1

\* the loop of DeflatingCompositeEntity.teardown from position k on
RECURSIVE DeflatingCompositeEntity_teardownFrom(_, _)
DeflatingCompositeEntity_teardownFrom(w, k) ==
    IF k > Len(w.self.entities) THEN w
    ELSE DeflatingCompositeEntity_teardownFrom(
             Record(Entity_teardown(w, w.self.entities[k]), "teardown", w.self.entities[k]),
             k + 1)

\* DeflatingCompositeEntity.teardown()
DeflatingCompositeEntity_teardown(w) ==
    Self_teardown(DeflatingCompositeEntity_teardownFrom(w, 1))

\* DeflatingCompositeEntity.addEntity(entity)
DeflatingCompositeEntity_addEntity(w, entity) ==
    LET w1 == IF w.self.isSetup /\ ~w.ent[entity].isSetup
              THEN Record(Entity_setup(w, entity, Entity_config(w.self)), "setup", entity)
              ELSE w
    IN [w1 EXCEPT !.self.entities = Append(@, entity)]

\* DeflatingCompositeEntity.removeEntity(entity)
DeflatingCompositeEntity_removeEntity(w, entity) ==
    LET index == IndexOf(w.self.entities, entity) IN
    IF index = 0 THEN Throw(w, "Cannot find entity to remove")
    ELSE LET w1 == IF w.ent[entity].isSetup
                   THEN Record(Entity_teardown(w, entity), "teardown", entity) ELSE w
         IN [w1 EXCEPT !.self.entities = Splice(@, index)]

CommitDc(w) == Commit(w) /\ dc' = w.self

InitDc ==
    /\ ent \in [EntityIds -> {NewEntity(k, DefaultTransition) : k \in AltChildKinds}]
    /\ InitWorld
    /\ \E a \in BOOLEAN : dc = NewDeflatingCompositeEntity(a)
    /\ par = NoPar /\ seq = NoSeq /\ sm = NoSm /\ alt = NoAlt /\ sw = NoSw /\ hist = NoHist

DcSetup(config) ==
    /\ ~dc.isSetup
    /\ LET w == DeflatingCompositeEntity_setup(DcWorldOf(dc), config)
       IN CommitDc(w) /\ Call("dc.setup", 0, w.err)
    /\ UNCHANGED <<par, seq, sm, alt, sw, hist>>

DcUpdate(t) ==
    /\ dc.isSetup
    /\ LET w == DeflatingCompositeEntity_update(DcWorldOf(dc), t)
       IN CommitDc(w) /\ Call("dc.update", 0, w.err)
    /\ UNCHANGED <<par, seq, sm, alt, sw, hist>>

DcTeardown ==
    /\ dc.isSetup
    /\ LET w == DeflatingCompositeEntity_teardown(DcWorldOf(dc))
       IN CommitDc(w) /\ Call("dc.teardown", 0, w.err)
    /\ UNCHANGED <<par, seq, sm, alt, sw, hist>>

\* the entity added is one that is not in the list
DcAddEntity(d) ==
    /\ IndexOf(dc.entities, d) = 0
    /\ LET w == DeflatingCompositeEntity_addEntity(DcWorldOf(dc), d)
       IN CommitDc(w) /\ Call("dc.addEntity", d, w.err)
    /\ UNCHANGED <<par, seq, sm, alt, sw, hist>>

DcRemoveEntity(d) ==
    /\ LET w == DeflatingCompositeEntity_removeEntity(DcWorldOf(dc), d)
       IN CommitDc(w) /\ Call("dc.removeEntity", d, w.err)
    /\ UNCHANGED <<par, seq, sm, alt, sw, hist>>

NextDc ==
    \/ DcSetup("cfgA")
    \/ \E t \in 0..MaxTime : DcUpdate(t)
    \/ DcTeardown
    \/ \E d \in EntityIds : DcAddEntity(d)
    \/ \E d \in EntityIds : DcRemoveEntity(d)
    \/ \E i \in EntityIds : ChildDone(i, True)

SpecDc == InitDc /\ [][NextDc]_vars

-----------------------------------------------------------------------------
(* Claims about DeflatingCompositeEntity *)

\* the child calls an update() is to make on the entities es, given the
\* entities before (b) and after (a) it: one update each, in order, and a
\* teardown right after the update of a child that then has a requested
\* transition and was set up
RECURSIVE ExpectedUpdateCalls(_, _, _)
ExpectedUpdateCalls(es, b, a) ==
    IF es = <<>> THEN <<>>
    ELSE LET e == Head(es) IN
         <<<<"update", e>>>>
         \o (IF Truthy(a[e].rt) /\ b[e].isSetup THEN <<<<"teardown", e>>>> ELSE <<>>)
         \o ExpectedUpdateCalls(Tail(es), b, a)

\* the entities of es that have no requested transition in a, in order
RECURSIVE StillRunning(_, _)
StillRunning(es, a) ==
    IF es = <<>> THEN <<>>
    ELSE (IF Truthy(a[Head(es)].rt) THEN <<>> ELSE <<Head(es)>>) \o StillRunning(Tail(es), a)

====
